---- MODULE Spec2Model ----
(***************************************************************************)
(* A model of the go-iouring Ring: the submission path (getSQE, Prep*,     *)
(* SetSQEFlags, Submit), the completion path (PeekCQE, SeenCQE, SeenCQEs,  *)
(* ForEachCQE, DrainCQEs), Close, and the kernel side of the two shared    *)
(* rings.                                                                  *)
(*                                                                         *)
(* Spec       one thread calling PrepNop, GetSQE, Submit and Close as      *)
(*            whole operations, interleaved with the kernel's steps, with  *)
(*            and without kernel polling.                                  *)
(* SpecBuild  the builders, GetSQE, SetSQEFlags and Submit.                *)
(* SpecCQ     the completion path of a single consumer.                    *)
(* SpecConc   producer, submitter and closer goroutines, each operation    *)
(*            split at its lock operations and shared-memory accesses.     *)
(***************************************************************************)
EXTENDS Integers, Sequences, FiniteSets, TLC

(***************************************************************************)
(* Bounds of the model.                                                    *)
(***************************************************************************)
\* Width in bits of the head/tail counters (uint32 in the code).
CounterBits == 3
\* log2 of the submission ring's capacity (the kernel rounds the request
\* up to a power of two).
SQOrder == 1
\* Reservation attempts (Prep*, GetSQE) made in one run.
MaxReserve == 3
\* Reservation attempts made in one run of SpecFull.
MaxAttempts == 7
\* Largest minimum-completion count passed to SubmitAndWait.
MaxWait == 1
\* Largest n passed to SeenCQEs and largest number of entries a ForEachCQE
\* predicate accepts.
MaxAdvance == 2
\* Close calls made in one run.
MaxClose == 3
\* Clock ticks in one run; timeouts passed to WaitCQETimeout are shorter.
MaxTime == 2

(***************************************************************************)
(* Program constants.                                                      *)
(***************************************************************************)
IORING_OP_NOP == 0
IORING_OP_READ == 22
IORING_OP_WRITE == 23
IOSQE_IO_LINK == 4
IORING_SQ_NEED_WAKEUP == 1
IORING_ENTER_SQ_WAKEUP == 2
IORING_ENTER_GETEVENTS == 1
IORING_ENTER_EXT_ARG == 8
\* A file descriptor and a buffer address a caller passes to PrepRead.
Fds == {3}
BufAddrs == {64}
Offsets == {0}

Mod == 2 ^ CounterBits
\* uint32 arithmetic wraps.
U32(x) == x % Mod

RECURSIVE BitAnd(_, _)
BitAnd(a, b) ==
  IF a = 0 \/ b = 0 THEN 0
  ELSE (a % 2) * (b % 2) + 2 * BitAnd(a \div 2, b \div 2)

RECURSIVE BitOr(_, _)
BitOr(a, b) ==
  IF a = 0 THEN b
  ELSE IF b = 0 THEN a
  ELSE (IF a % 2 = 1 \/ b % 2 = 1 THEN 1 ELSE 0) + 2 * BitOr(a \div 2, b \div 2)

\* Ring geometry as the kernel reports it: capacity a power of two,
\* mask = capacity - 1, completion ring twice the submission ring.
sqEntries == 2 ^ SQOrder
sqMask == sqEntries - 1
cqEntries == 2 * sqEntries
cqMask == cqEntries - 1

Regions == {"sqRing", "cqRing", "sqesMmap"}

VARIABLES
  \* params.Flags & IORING_SETUP_SQPOLL
  sqpoll,
  \* params.Features & IORING_FEAT_SINGLE_MMAP
  singleMmap,
  \* params.Features & IORING_FEAT_EXT_ARG
  extArg,
  \* environment: the clock (in ticks) and whether the context passed to
  \* WaitCQEContext has been cancelled
  now, ctxDone,
  \* the Probe value Ring.Probe returned and the last SupportsOp call on it
  probe,
  \* the sys.Params that New is filling in, and the options applied to it
  params, opts,
  \* Ring.closed, the mapped regions, the descriptor
  closed, mapped, fdOpen,
  \* the submission ring in shared memory
  sqHead, sqTail, sqFlags, sqArray, sqes,
  \* library-private submission state
  sqPending, sqLock,
  \* the completion ring in shared memory
  cqHead, cqTail, cqes,
  \* kernel: requests consumed from the submission ring, not yet completed
  inflight,
  \* threads: position and locals of each thread; halted: the process died
  \* on a fault or ran on memory that is no longer the ring's
  pc, loc, halted,
  \* what the last library call returned
  ret,
  \* history: outcome of each reservation attempt, in order
  resLog,
  \* history: token of the latest reservation at each ring position
  owner,
  \* history: completions in the order the kernel published them, the
  \* completions the consumer obtained, the entry last peeked and not yet
  \* released, the total head advance, and how the consumer has behaved
  posted, seen, peeked, cqAdv, consumer,
  \* history: tokens published by a Submit that returned without error
  covered,
  \* history: worst access a library step made to a region
  regionUse,
  \* history of the Close calls: how many were made, which of them went
  \* past the closed-flag swap, the munmap and close syscalls made (in
  \* order, with the call that made each), and what each call returned;
  \* maps: the regions New mapped, in order
  closeLog

cfgVars == <<sqpoll, singleMmap, extArg>>
envVars == <<now, ctxDone, probe, params, opts>>
resVars == <<closed, mapped, fdOpen>>
sqVars == <<sqHead, sqTail, sqFlags, sqArray, sqes>>
libVars == <<sqPending, sqLock>>
cqVars == <<cqHead, cqTail, cqes>>
kernVars == <<inflight>>
thrVars == <<pc, loc, halted>>
sqHist == <<resLog, owner, covered>>
cqHist == <<posted, seen, peeked, cqAdv, consumer>>
vars == <<cfgVars, envVars, resVars, sqVars, libVars, cqVars, kernVars,
          thrVars, ret, sqHist, cqHist, regionUse, closeLog>>

(***************************************************************************)
(* Records.                                                                *)
(***************************************************************************)
\* SQE{}: the zero value written by SQE.Reset.
ZeroSQE ==
  [opcode |-> 0, flags |-> 0, fd |-> 0, off |-> 0, addr |-> 0, len |-> 0,
   userData |-> 0]

ZeroCQE == [userData |-> 0, res |-> 0, flags |-> 0]

NoPeek == [userData |-> -1, res |-> 0, flags |-> 0]

\* The value a call returned. wasClosed: the ring was closed when the call
\* began; entered: the call made an enter syscall.
\* readPast: the call read a completion slot at or past the kernel's tail.
\* call: the arguments of that enter syscall.
NoEnter == [toSubmit |-> 0, minComplete |-> 0, flags |-> 0]

EnterCall(toSubmit, minComplete, flags) ==
  [toSubmit |-> toSubmit, minComplete |-> minComplete, flags |-> flags]

Ret(op, err, n, wasClosed, entered) ==
  [op |-> op, err |-> err, n |-> n, ok |-> FALSE, cqe |-> ZeroCQE,
   wasClosed |-> wasClosed, entered |-> entered, readPast |-> FALSE,
   call |-> NoEnter]

RetEnter(op, err, n, call) ==
  [Ret(op, err, n, FALSE, TRUE) EXCEPT !.call = call]

RetCQE(op, ok, cqe, wasClosed, readPast) ==
  [op |-> op, err |-> "nil", n |-> 0, ok |-> ok, cqe |-> cqe,
   wasClosed |-> wasClosed, entered |-> FALSE, readPast |-> readPast,
   call |-> NoEnter]

Threads == {"app", "prod", "sub", "closer"}

\* op: the public operation in progress; fn: the function of it that is
\* executing; timeout, deadline: of the timed wait in progress.
NoLocals ==
  [submitted |-> 0, tok |-> 0, idx |-> 0, minComplete |-> 0, call |-> 0,
   op |-> "none", fn |-> "none", timeout |-> 0, deadline |-> 0,
   enter |-> NoEnter]

\* The history of a ring New has mapped region by region, before any Close.
NoCloses ==
  [calls |-> 0, entered |-> {}, sys |-> <<>>, rets |-> {},
   maps |-> <<"sqRing", "cqRing", "sqesMmap">>]

\* The ring positions a run starts at: a new ring (0), and a ring that has
\* carried Mod - 1 entries whose token and result were 0 (GetSQE entries left
\* as no-ops) through both queues, so that the next entry wraps the slot
\* index of both rings and the counters themselves.
Starts == {0, Mod - 1}

\* A ring New has just returned.
IORING_OP_LAST == 58
IO_URING_OP_SUPPORTED == 1

\* No Probe value yet.  kernel: the kernel's last opcode and the opcodes up
\* to it that it does not support.
NoProbe ==
  [called |-> FALSE, LastOp |-> 0,
   Ops |-> [i \in 0..(IORING_OP_LAST - 1) |-> 0],
   kernel |-> [lastOp |-> 0, off |-> {}], op |-> 0, res |-> "none"]

\* params := sys.Params{}
ZeroParams ==
  [Flags |-> 0, SQThreadCPU |-> 0, SQThreadIdle |-> 0, CQEntries |-> 0]

InitRing ==
  /\ now = 0
  /\ ctxDone = FALSE
  /\ probe = NoProbe
  /\ params = ZeroParams
  /\ opts = <<>>
  /\ closed = FALSE
  /\ mapped = Regions
  /\ fdOpen = TRUE
  /\ \E s \in Starts :
       /\ sqHead = s
       /\ sqTail = s
       /\ cqHead = s
       /\ cqTail = s
       /\ sqArray = [i \in 0..sqMask |-> IF i < s THEN i ELSE 0]
  /\ sqFlags = 0
  /\ sqes = [i \in 0..sqMask |-> ZeroSQE]
  /\ sqPending = 0
  /\ sqLock = "free"
  /\ cqes = [i \in 0..cqMask |-> ZeroCQE]
  /\ inflight = <<>>
  /\ pc = [t \in Threads |-> "idle"]
  /\ loc = [t \in Threads |-> NoLocals]
  /\ halted = FALSE
  /\ ret = Ret("New", "nil", 0, FALSE, FALSE)
  /\ resLog = <<>>
  /\ owner = [p \in 0..(Mod - 1) |-> 0]
  /\ covered = {}
  /\ posted = <<>>
  /\ seen = <<>>
  /\ peeked = NoPeek
  /\ cqAdv = 0
  /\ consumer = "strict"
  /\ regionUse = "ok"
  /\ closeLog = NoCloses

\* A ring whose kernel mapped the two rings separately and has no
\* extended enter argument.
Init ==
  /\ sqpoll \in BOOLEAN
  /\ singleMmap = FALSE
  /\ extArg = FALSE
  /\ InitRing

(***************************************************************************)
(* Access to the mapped regions.  After Munmap an access either faults     *)
(* (the Go runtime kills the process) or, when the address range has been  *)
(* mapped again, reads or writes memory that is no longer the ring's and   *)
(* the call returns any value it can return.  Both outcomes are kept; the  *)
(* model follows neither run further (halted).                             *)
(***************************************************************************)
Worse(a, b) ==
  IF a = "afterUnmap" \/ b = "afterUnmap" THEN "afterUnmap"
  ELSE IF a = "afterClosed" \/ b = "afterClosed" THEN "afterClosed"
  ELSE "ok"

Touch(R) ==
  regionUse' = Worse(regionUse,
                     IF ~(R \subseteq mapped) THEN "afterUnmap"
                     ELSE IF closed THEN "afterClosed" ELSE "ok")

\* Severity of the consumer's history: "strict" (every release followed a
\* successful peek, or was made by ForEachCQE), "skipping" (some entries were
\* released unseen, never more than were available), "overrun" (some release
\* went past the kernel's tail).
WorseConsumer(a, b) ==
  IF a = "overrun" \/ b = "overrun" THEN "overrun"
  ELSE IF a = "skipping" \/ b = "skipping" THEN "skipping"
  ELSE "strict"

AppCan == ~halted /\ pc["app"] = "idle" /\ sqLock = "free"

Fault(op, R, errs) ==
  /\ ~(R \subseteq mapped)
  /\ halted' = TRUE
  /\ \E e \in {"fault"} \cup errs : ret' = Ret(op, e, 0, closed, FALSE)
  /\ Touch(R)
  /\ UNCHANGED <<cfgVars, envVars, closeLog, resVars, sqVars, libVars, cqVars,
                 kernVars, pc, loc, sqHist, cqHist>>

(***************************************************************************)
(* Submission path: getSQE and the builders.                               *)
(***************************************************************************)
getSQE_tail_IgnoresPending == sqTail

\* tail := atomic.LoadUint32(r.sqTail) + r.sqPending
getSQE_tail == U32(sqTail + sqPending)

getSQE_full_Never == FALSE

getSQE_full_IgnoresHead == getSQE_tail >= sqEntries

getSQE_full_OffByOne == U32(getSQE_tail - sqHead) > sqEntries

\* if tail-head >= r.sqEntries { return nil }
getSQE_full == U32(getSQE_tail - sqHead) >= sqEntries

getSQE_idx_FromHead == BitAnd(sqHead, sqMask)

\* idx := tail & r.sqMask
getSQE_idx == BitAnd(getSQE_tail, sqMask)

getSQE_NoReset(sqe) ==
  /\ sqes' = [sqes EXCEPT ![getSQE_idx] =
                 [f \in DOMAIN sqe |-> IF sqe[f] # 0 THEN sqe[f] ELSE @[f]]]
  /\ sqArray' = [sqArray EXCEPT ![getSQE_idx] = getSQE_idx]
  /\ sqPending' = U32(sqPending + 1)
  /\ UNCHANGED <<sqHead, sqTail, sqFlags>>

getSQE_PublishesTail(sqe) ==
  /\ sqes' = [sqes EXCEPT ![getSQE_idx] = sqe]
  /\ sqArray' = [sqArray EXCEPT ![getSQE_idx] = getSQE_idx]
  /\ sqTail' = U32(sqTail + 1)
  /\ UNCHANGED <<sqHead, sqPending, sqFlags>>

\* A successful getSQE (Reset, index-array write, pending++) followed by the
\* builder's field writes, which leave `sqe` in the slot.
getSQE(sqe) ==
  /\ sqes' = [sqes EXCEPT ![getSQE_idx] = sqe]
  /\ sqArray' = [sqArray EXCEPT ![getSQE_idx] = getSQE_idx]
  /\ sqPending' = U32(sqPending + 1)
  /\ UNCHANGED <<sqHead, sqTail, sqFlags>>

\* The common shape of every Prep* builder: lock, getSQE, ErrSQFull on nil,
\* field writes, unlock.
PrepCall(op, sqe) ==
  /\ AppCan
  /\ \/ Fault(op, {"sqRing", "sqesMmap"}, {"nil", "ErrSQFull"})
     \/ /\ {"sqRing", "sqesMmap"} \subseteq mapped
        /\ Touch({"sqRing", "sqesMmap"})
        /\ IF getSQE_full
           THEN /\ ret' = Ret(op, "ErrSQFull", 0, closed, FALSE)
                /\ resLog' = Append(resLog, FALSE)
                /\ UNCHANGED <<sqVars, sqPending, owner>>
           ELSE /\ getSQE(sqe)
                /\ owner' = [owner EXCEPT ![getSQE_tail] = sqe.userData]
                /\ ret' = Ret(op, "nil", 0, closed, FALSE)
                /\ resLog' = Append(resLog, TRUE)
        /\ UNCHANGED <<cfgVars, envVars, closeLog, resVars, sqLock, cqVars,
                       kernVars, thrVars, covered, cqHist>>

\* A builder call within the run's budget of reservation attempts.
Prep(op, sqe) == Len(resLog) < MaxReserve /\ PrepCall(op, sqe)

NopSQE(u) == [ZeroSQE EXCEPT !.opcode = IORING_OP_NOP, !.userData = u]

ReadSQE(fd, addr, len, off, u) ==
  [ZeroSQE EXCEPT !.opcode = IORING_OP_READ, !.fd = fd, !.addr = addr,
                  !.len = len, !.off = off, !.userData = u]

\* The token the caller passes: a fresh one for every reservation attempt.
NextToken == Len(resLog) + 1

PrepNop == Prep("PrepNop", NopSQE(NextToken))

\* PrepNop in a longer run of attempts.
PrepNopMany ==
  Len(resLog) < MaxAttempts /\ PrepCall("PrepNop", NopSQE(NextToken))

WriteSQE(fd, addr, len, off, u) ==
  [ZeroSQE EXCEPT !.opcode = IORING_OP_WRITE, !.fd = fd, !.addr = addr,
                  !.len = len, !.off = off, !.userData = u]

PrepBuf_empty_Never(len) == FALSE

\* if len(buf) == 0 { return nil }
PrepBuf_empty(len) == len = 0

\* The shape of the builders that take a buffer: an empty buffer returns
\* nil before the lock is taken, any other goes on as every builder does.
PrepBuf(op, sqe) ==
  IF PrepBuf_empty(sqe.len)
  THEN /\ AppCan
       /\ ret' = Ret(op, "nil", 0, closed, FALSE)
       /\ UNCHANGED <<cfgVars, envVars, closeLog, resVars, sqVars, libVars,
                      cqVars, kernVars, thrVars, sqHist, cqHist, regionUse>>
  ELSE Prep(op, sqe)

PrepRead ==
  \E fd \in Fds, addr \in BufAddrs, len \in 0..1, off \in Offsets :
    PrepBuf("PrepRead", ReadSQE(fd, addr, len, off, NextToken))

PrepWrite ==
  \E fd \in Fds, addr \in BufAddrs, len \in 0..1, off \in Offsets :
    PrepBuf("PrepWrite", WriteSQE(fd, addr, len, off, NextToken))

\* The public GetSQE: the zeroed entry is handed out, or nil.
GetSQE ==
  /\ AppCan
  /\ Len(resLog) < MaxReserve
  /\ \/ Fault("GetSQE", {"sqRing", "sqesMmap"}, {"nil"})
     \/ /\ {"sqRing", "sqesMmap"} \subseteq mapped
        /\ Touch({"sqRing", "sqesMmap"})
        /\ IF getSQE_full
           THEN /\ ret' = Ret("GetSQE", "nil", 0, closed, FALSE)
                /\ resLog' = Append(resLog, FALSE)
                /\ UNCHANGED <<sqVars, sqPending, owner>>
           ELSE /\ getSQE(ZeroSQE)
                /\ owner' = [owner EXCEPT ![getSQE_tail] = 0]
                /\ ret' = [Ret("GetSQE", "nil", 0, closed, FALSE)
                             EXCEPT !.ok = TRUE]
                /\ resLog' = Append(resLog, TRUE)
        /\ UNCHANGED <<cfgVars, envVars, closeLog, resVars, sqLock, cqVars,
                       kernVars, thrVars, covered, cqHist>>

SetSQEFlags_idx_NextSlot == BitAnd(U32(sqTail + sqPending), sqMask)

\* tail := LoadUint32(r.sqTail) + r.sqPending - 1; idx := tail & r.sqMask
SetSQEFlags_idx == BitAnd(U32(sqTail + sqPending - 1), sqMask)

SetSQEFlags_call(f) ==
    /\ AppCan
    /\ IF sqPending > 0
       THEN \/ Fault("SetSQEFlags", {"sqRing", "sqesMmap"}, {"nil"})
            \/ /\ {"sqRing", "sqesMmap"} \subseteq mapped
               /\ Touch({"sqRing", "sqesMmap"})
               /\ sqes' = [sqes EXCEPT ![SetSQEFlags_idx].flags = BitOr(@, f)]
               /\ ret' = Ret("SetSQEFlags", "nil", 0, closed, FALSE)
               /\ UNCHANGED <<cfgVars, envVars, closeLog, resVars, sqHead,
                              sqTail, sqFlags, sqArray, libVars, cqVars,
                              kernVars, thrVars, sqHist, cqHist>>
       ELSE /\ ret' = Ret("SetSQEFlags", "nil", 0, closed, FALSE)
            /\ UNCHANGED <<cfgVars, envVars, closeLog, resVars, sqVars,
                           libVars, cqVars, kernVars, thrVars, sqHist, cqHist,
                           regionUse>>

\* SetSQELink: r.SetSQEFlags(sys.IOSQE_IO_LINK)
SetSQEFlags == \E f \in {IOSQE_IO_LINK} : SetSQEFlags_call(f)

(***************************************************************************)
(* The kernel's side of the submission ring.                               *)
(***************************************************************************)
Min(a, b) == IF a < b THEN a ELSE b

\* The request the kernel builds from ring position p: it reads the index
\* array, then the entry; the completion carries the entry's user token.
KernelRequest(p) ==
  LET sqe == sqes[sqArray[BitAnd(p, sqMask)]]
  IN  [userData |-> sqe.userData,
       res |-> IF sqe.opcode = IORING_OP_READ THEN sqe.len ELSE 0,
       flags |-> 0]

Consumed(k) == [i \in 1..k |-> KernelRequest(U32(sqHead + i - 1))]

Submit_return_Published(submitted, n) == submitted

Submit_flags_AlwaysWakeup(wake) == IORING_ENTER_SQ_WAKEUP

\* var flags uint32; if r.needsWakeup() { flags |= IORING_ENTER_SQ_WAKEUP }
Submit_flags(wake) == IF wake THEN IORING_ENTER_SQ_WAKEUP ELSE 0

\* if r.params.Flags&sys.IORING_SETUP_SQPOLL != 0 && flags == 0: no syscall
Submit_elides(flags) == sqpoll /\ flags = 0

\* n, err := sys.Enter(r.fd, submitted, ...); return n, nil
Submit_return(submitted, n) == n

\* io_uring_enter(fd, toSubmit, 0, flags) after the tail store `newTail`.
\* Without kernel polling the kernel consumes up to toSubmit entries from
\* the head and reports how many it took, or fails having taken none; with
\* kernel polling the call wakes the poll thread when asked and reports
\* toSubmit.  `tokens` are the entries the caller has just published; they
\* count as covered when the call reports all of them submitted.
EnterSubmit(op, toSubmit, newTail, tokens, wake) ==
  LET call == EnterCall(toSubmit, 0, Submit_flags(wake))
      woken == BitAnd(call.flags, IORING_ENTER_SQ_WAKEUP) # 0
  IN  IF sqpoll
      THEN \E failed \in BOOLEAN :
             /\ sqFlags' = IF woken /\ ~failed THEN 0 ELSE sqFlags
             /\ ret' = IF failed THEN RetEnter(op, "errno", 0, call)
                       ELSE RetEnter(op, "nil",
                                     Submit_return(toSubmit, toSubmit), call)
             /\ covered' = IF failed THEN covered ELSE covered \cup tokens
             /\ UNCHANGED <<sqHead, inflight>>
      ELSE \E k \in 0..Min(toSubmit, U32(newTail - sqHead)) :
             /\ sqHead' = U32(sqHead + k)
             /\ inflight' = inflight \o Consumed(k)
             /\ ret' = IF k = 0 THEN RetEnter(op, "errno", 0, call)
                       ELSE RetEnter(op, "nil", Submit_return(toSubmit, k),
                                     call)
             /\ covered' = IF k = toSubmit THEN covered \cup tokens
                           ELSE covered
             /\ UNCHANGED sqFlags

\* The poll thread (kernel-polled mode) takes the entry at the head.
KernelPollConsume ==
  /\ sqpoll /\ fdOpen /\ ~halted
  /\ BitAnd(sqFlags, IORING_SQ_NEED_WAKEUP) = 0
  /\ sqHead # sqTail
  /\ sqHead' = U32(sqHead + 1)
  /\ inflight' = inflight \o Consumed(1)
  /\ UNCHANGED <<cfgVars, envVars, closeLog, resVars, sqTail, sqFlags,
                 sqArray, sqes, libVars, cqVars, thrVars, ret, sqHist, cqHist,
                 regionUse>>

\* The poll thread finds the ring empty, sets the needs-wakeup bit and parks.
KernelPollPark ==
  /\ sqpoll /\ fdOpen /\ ~halted
  /\ BitAnd(sqFlags, IORING_SQ_NEED_WAKEUP) = 0
  /\ sqHead = sqTail
  /\ sqFlags' = BitOr(sqFlags, IORING_SQ_NEED_WAKEUP)
  /\ UNCHANGED <<cfgVars, envVars, closeLog, resVars, sqHead, sqTail, sqArray,
                 sqes, libVars, cqVars, kernVars, thrVars, ret, sqHist,
                 cqHist, regionUse>>

RemoveAt(q, i) == SubSeq(q, 1, i - 1) \o SubSeq(q, i + 1, Len(q))

\* The kernel completes a request: it writes the entry at tail & mask, then
\* advances the tail.  A full completion ring holds the completion back.
KernelComplete ==
  \E i \in 1..Len(inflight) :
    /\ fdOpen /\ ~halted
    /\ U32(cqTail - cqHead) < cqEntries
    /\ cqes' = [cqes EXCEPT ![BitAnd(cqTail, cqMask)] = inflight[i]]
    /\ cqTail' = U32(cqTail + 1)
    /\ posted' = Append(posted, inflight[i])
    /\ inflight' = RemoveAt(inflight, i)
    /\ UNCHANGED <<cfgVars, envVars, closeLog, resVars, sqVars, libVars,
                   cqHead, thrVars, ret, sqHist, seen, peeked, cqAdv,
                   consumer, regionUse>>

(***************************************************************************)
(* Submit.                                                                 *)
(***************************************************************************)
\* needsWakeup: false unless kernel-polled and the needs-wakeup bit is set.
needsWakeup ==
  IF ~sqpoll THEN FALSE
  ELSE BitAnd(sqFlags, IORING_SQ_NEED_WAKEUP) # 0

Submit_newTail_ByOne(tail, submitted) == U32(tail + 1)

\* atomic.StoreUint32(r.sqTail, tail+submitted)
Submit_newTail(tail, submitted) == U32(tail + submitted)

Submit_publish_NoTailStore(submitted) ==
  /\ sqTail' = sqTail
  /\ sqPending' = 0

Submit_publish_KeepsPending(submitted) ==
  /\ sqTail' = Submit_newTail(sqTail, submitted)
  /\ sqPending' = sqPending

\* The critical section of Submit, SubmitAndWait and WaitCQETimeout:
\* the tail store, then r.sqPending = 0.
Submit_publish(submitted) ==
  /\ sqTail' = Submit_newTail(sqTail, submitted)
  /\ sqPending' = 0

\* The tokens reserved at the positions a tail store of `submitted` entries
\* publishes (GetSQE's untouched entries carry token 0 and are not counted).
PublishedTokens(tail, submitted) ==
  {owner[U32(tail + i)] : i \in 0..(submitted - 1)} \ {0}

Submit ==
  /\ AppCan
  /\ IF closed
     THEN /\ ret' = Ret("Submit", "ErrRingClosed", 0, TRUE, FALSE)
          /\ UNCHANGED <<sqVars, libVars, kernVars, covered, regionUse>>
     ELSE IF sqPending = 0
     THEN /\ ret' = Ret("Submit", "nil", 0, FALSE, FALSE)
          /\ UNCHANGED <<sqVars, libVars, kernVars, covered, regionUse>>
     ELSE LET submitted == sqPending
              newTail == Submit_newTail(sqTail, submitted)
              tokens == PublishedTokens(sqTail, submitted)
          IN  /\ Touch({"sqRing"})
              /\ Submit_publish(submitted)
              /\ UNCHANGED <<sqLock, sqArray, sqes>>
              /\ IF Submit_elides(Submit_flags(needsWakeup))
                 THEN /\ ret' = Ret("Submit", "nil", submitted, FALSE, FALSE)
                      /\ covered' = covered \cup tokens
                      /\ UNCHANGED <<sqHead, sqFlags, inflight>>
                 ELSE EnterSubmit("Submit", submitted, newTail, tokens,
                                  needsWakeup)
  /\ UNCHANGED <<cfgVars, envVars, closeLog, resVars, cqVars, thrVars, resLog,
                 owner, cqHist>>

(***************************************************************************)
(* SubmitAndWait.  The call blocks inside enter until the completion ring  *)
(* holds the requested number of entries: the model splits it there.       *)
(***************************************************************************)
\* io_uring_enter(fd, toSubmit, minComplete, GETEVENTS | flags): the call
\* fails having taken nothing, or takes entries as for Submit and then
\* waits; the caller is parked with the count enter will report.
EnterWait(toSubmit, newTail, tokens, wake, minComplete) ==
  \E failed \in BOOLEAN :
    IF failed
    THEN /\ ret' = Ret("SubmitAndWait", "errno", 0, FALSE, TRUE)
         /\ UNCHANGED <<sqHead, sqFlags, inflight, covered, pc, loc>>
    ELSE /\ IF sqpoll
            THEN /\ sqFlags' = IF wake THEN 0 ELSE sqFlags
                 /\ covered' = covered \cup tokens
                 /\ loc' = [loc EXCEPT !["app"].submitted = toSubmit,
                                       !["app"].minComplete = minComplete]
                 /\ UNCHANGED <<sqHead, inflight>>
            ELSE \E k \in (IF toSubmit = 0 THEN {0}
                           ELSE 1..Min(toSubmit, U32(newTail - sqHead))) :
                   /\ sqHead' = U32(sqHead + k)
                   /\ inflight' = inflight \o Consumed(k)
                   /\ covered' = IF k = toSubmit THEN covered \cup tokens
                                 ELSE covered
                   /\ loc' = [loc EXCEPT !["app"].submitted = k,
                                         !["app"].minComplete = minComplete]
                   /\ UNCHANGED sqFlags
         /\ pc' = [pc EXCEPT !["app"] = "waiting"]
         /\ UNCHANGED ret

\* SubmitAndWait up to the point where enter blocks.
SubmitAndWait ==
  \E n \in 0..MaxWait :
    /\ AppCan
    /\ IF closed
       THEN /\ ret' = Ret("SubmitAndWait", "ErrRingClosed", 0, TRUE, FALSE)
            /\ UNCHANGED <<sqVars, libVars, kernVars, covered, regionUse, pc,
                           loc>>
       ELSE LET submitted == sqPending
                newTail == Submit_newTail(sqTail, submitted)
                tokens == PublishedTokens(sqTail, submitted)
            IN  /\ IF submitted > 0
                   THEN Submit_publish(submitted)
                   ELSE UNCHANGED <<sqTail, sqPending>>
                /\ IF submitted > 0 \/ sqpoll
                   THEN Touch({"sqRing"})
                   ELSE UNCHANGED regionUse
                /\ UNCHANGED <<sqLock, sqArray, sqes>>
                /\ EnterWait(submitted, newTail, tokens, needsWakeup, n)
    /\ UNCHANGED <<cfgVars, envVars, closeLog, resVars, cqVars, halted,
                   resLog, owner, cqHist>>

\* enter returns once the completion ring holds minComplete entries;
\* SubmitAndWait returns the count enter reports.
SubmitAndWait_return ==
  /\ ~halted
  /\ pc["app"] = "waiting"
  /\ U32(cqTail - cqHead) >= loc["app"].minComplete
  /\ ret' = Ret("SubmitAndWait", "nil",
                Submit_return(sqPending, loc["app"].submitted), FALSE, TRUE)
  /\ pc' = [pc EXCEPT !["app"] = "idle"]
  /\ loc' = [loc EXCEPT !["app"] = NoLocals]
  /\ UNCHANGED <<cfgVars, envVars, closeLog, resVars, sqVars, libVars, cqVars,
                 kernVars, halted, sqHist, cqHist, regionUse>>

(***************************************************************************)
(* Completion path.  No operation here takes a lock or checks the closed   *)
(* flag.                                                                   *)
(***************************************************************************)
Running == ~halted /\ pc["app"] = "idle"

\* Completions published and not yet released, by the history.
Available == Len(posted) - cqAdv

cqFrame == <<cfgVars, envVars, closeLog, resVars, sqVars, libVars, cqTail,
             cqes, kernVars, thrVars, sqHist, posted>>

\* if head == tail { return 0, 0, 0, false }
PeekCQE_empty(head, tail) == head = tail

PeekCQE_idx_NextSlot(head) == BitAnd(head + 1, cqMask)

PeekCQE_idx_Newest(head) == BitAnd(U32(cqTail - 1), cqMask)

\* idx := head & r.cqMask
PeekCQE_idx(head) == BitAnd(head, cqMask)

PeekCQE ==
  /\ Running
  /\ \/ Fault("PeekCQE", {"cqRing"}, {"nil"})
     \/ /\ "cqRing" \in mapped
        /\ Touch({"cqRing"})
        /\ IF PeekCQE_empty(cqHead, cqTail)
           THEN /\ ret' = RetCQE("PeekCQE", FALSE, ZeroCQE, closed, FALSE)
                /\ UNCHANGED peeked
           ELSE LET cqe == cqes[PeekCQE_idx(cqHead)]
                IN  /\ ret' = RetCQE("PeekCQE", TRUE, cqe, closed,
                                     Available <= 0)
                    /\ peeked' = cqe
        /\ UNCHANGED <<cqFrame, cqHead, seen, cqAdv, consumer>>

\* atomic.StoreUint32(r.cqHead, head+1)
SeenCQE_newHead(head) == U32(head + 1)

\* atomic.StoreUint32(r.cqHead, head+n)
SeenCQEs_newHead(head, n) == U32(head + n)

\* The head store of SeenCQE and SeenCQEs.  A release of one entry that
\* follows a successful peek hands that entry to the consumer; any other
\* release skips entries, and one larger than Available overruns the tail.
\* The caller makes no further release once the head is past the tail.
Advance(op, newHead) ==
  LET n == U32(newHead - cqHead)
  IN  /\ Running
      /\ Available >= 0
      /\ \/ Fault(op, {"cqRing"}, {"nil"})
         \/ /\ "cqRing" \in mapped
            /\ Touch({"cqRing"})
            /\ cqHead' = newHead
            /\ cqAdv' = cqAdv + n
            /\ IF n = 0
               THEN UNCHANGED <<seen, peeked, consumer>>
               ELSE /\ peeked' = NoPeek
                    /\ IF n = 1 /\ peeked # NoPeek /\ Available >= 1
                       THEN /\ seen' = Append(seen, peeked)
                            /\ UNCHANGED consumer
                       ELSE /\ UNCHANGED seen
                            /\ consumer' =
                                 WorseConsumer(consumer,
                                               IF n <= Available
                                               THEN "skipping" ELSE "overrun")
            /\ ret' = Ret(op, "nil", 0, closed, FALSE)
            /\ UNCHANGED cqFrame

SeenCQE == Advance("SeenCQE", SeenCQE_newHead(cqHead))

SeenCQEs == \E n \in 0..MaxAdvance : Advance("SeenCQEs", SeenCQEs_newHead(cqHead, n))

ForEachCQE_count_CountsRejected(head, tail, k) == Min(k + 1, U32(tail - head))

\* The loop of ForEachCQE with a predicate that accepts the first k entries
\* it is shown: the number of entries accepted before the loop ends.
ForEachCQE_count(head, tail, k) == Min(k, U32(tail - head))

\* The entries the predicate is called on, the rejected one included.
ForEachCQE_visited(head, tail, k) == Min(k + 1, U32(tail - head))

\* ForEachCQE with a predicate that accepts the first k entries it is
\* shown and rejects the next.
ForEachCQE_pred(k) ==
    LET count == ForEachCQE_count(cqHead, cqTail, k)
        visited == ForEachCQE_visited(cqHead, cqTail, k)
        entries == [j \in 1..count |->
                      cqes[BitAnd(U32(cqHead + j - 1), cqMask)]]
    IN  /\ Running
        /\ Available >= 0 \/ k = 0
        /\ \/ Fault("ForEachCQE", {"cqRing"}, {"nil"})
           \/ /\ "cqRing" \in mapped
              /\ Touch({"cqRing"})
              /\ cqHead' = IF count > 0 THEN U32(cqHead + count) ELSE cqHead
              /\ cqAdv' = cqAdv + count
              /\ seen' = seen \o entries
              /\ peeked' = IF count > 0 THEN NoPeek ELSE peeked
              /\ ret' = [Ret("ForEachCQE", "nil", count, closed, FALSE)
                           EXCEPT !.readPast = visited > Available]
              /\ UNCHANGED <<cqFrame, consumer>>

ForEachCQE == \E k \in 0..cqEntries : ForEachCQE_pred(k)

\* return tail - head
CQReady == U32(cqTail - cqHead)

\* count := int(tail - head)
DrainCQEs_count(head, tail) == U32(tail - head)

DrainCQEs_newHead_PastTail(head, tail) == U32(tail + 1)

\* if count > 0 { atomic.StoreUint32(r.cqHead, tail) }
DrainCQEs_newHead(head, tail) ==
  IF DrainCQEs_count(head, tail) > 0 THEN tail ELSE head

DrainCQEs ==
  LET count == DrainCQEs_count(cqHead, cqTail)
      newHead == DrainCQEs_newHead(cqHead, cqTail)
  IN  /\ Running
      /\ \/ Fault("DrainCQEs", {"cqRing"}, {"nil"})
         \/ /\ "cqRing" \in mapped
            /\ Touch({"cqRing"})
            /\ cqHead' = newHead
            /\ cqAdv' = IF Available >= 0
                        THEN cqAdv + U32(newHead - cqHead)
                        ELSE Len(posted)
            /\ peeked' = IF count > 0 THEN NoPeek ELSE peeked
            /\ consumer' = IF count > 0
                           THEN WorseConsumer(consumer, "skipping")
                           ELSE consumer
            /\ ret' = Ret("DrainCQEs", "nil", count, closed, FALSE)
            /\ UNCHANGED <<cqFrame, seen>>

(***************************************************************************)
(* Close.  The munmap calls and the close of the descriptor, in the order  *)
(* Close makes them.                                                       *)
(***************************************************************************)
CloseSequence_UnmapsAliasToo == <<"cqRing", "sqRing", "sqesMmap", "fd">>

CloseSequence ==
  IF singleMmap THEN <<"sqRing", "sqesMmap", "fd">>
  ELSE <<"cqRing", "sqRing", "sqesMmap", "fd">>

closed_Swap_AlwaysFalse == FALSE

\* r.closed.Swap(true) returns the flag's value before the call; the store
\* is the closed' = TRUE of the step that evaluates it.
closed_Swap == closed

\* Close, as one call: the first call sets the flag, unmaps the regions
\* and closes the descriptor; a later call returns nil.
Close ==
  /\ Running
  /\ closeLog.calls < MaxClose
  /\ LET c == closeLog.calls + 1
     IN  IF closed_Swap
         THEN /\ ret' = Ret("Close", "nil", 0, TRUE, FALSE)
              /\ closeLog' = [closeLog EXCEPT !.calls = c,
                                              !.rets = @ \cup {<<c, "nil">>}]
              /\ UNCHANGED resVars
         ELSE /\ closed' = TRUE
              /\ mapped' = {}
              /\ fdOpen' = FALSE
              /\ ret' = Ret("Close", "nil", 0, FALSE, FALSE)
              /\ closeLog' =
                   [maps |-> closeLog.maps,
                    calls |-> c,
                    entered |-> closeLog.entered \cup {c},
                    sys |-> closeLog.sys \o
                              [i \in DOMAIN CloseSequence |->
                                 [call |-> c, what |-> CloseSequence[i]]],
                    rets |-> closeLog.rets \cup {<<c, "nil">>}]
  /\ UNCHANGED <<cfgVars, envVars, sqVars, libVars, cqVars, kernVars, thrVars,
                 sqHist, cqHist, regionUse>>

(***************************************************************************)
(* Spec: reservation, Submit and Close, with the kernel consuming and      *)
(* completing, with and without kernel polling.                            *)
(***************************************************************************)
Next ==
  \/ PrepNop
  \/ GetSQE
  \/ Submit
  \/ Close
  \/ KernelPollConsume
  \/ KernelPollPark
  \/ KernelComplete

Spec == Init /\ [][Next]_vars

(***************************************************************************)
(* SpecBuild: the builders and SetSQEFlags on a ring without kernel        *)
(* polling; the kernel consumes inside Submit's enter call.                *)
(***************************************************************************)
InitBuild == Init /\ ~sqpoll

NextBuild ==
  \/ PrepNop
  \/ PrepRead
  \/ GetSQE
  \/ SetSQEFlags
  \/ Submit

SpecBuild == InitBuild /\ [][NextBuild]_vars

(***************************************************************************)
(* SpecCQ: the completion path of a single consumer, fed by no-ops         *)
(* submitted on a ring without kernel polling.                             *)
(***************************************************************************)
InitCQ == Init /\ ~sqpoll

NextCQ ==
  \/ PrepNop
  \/ Submit
  \/ KernelComplete
  \/ PeekCQE
  \/ SeenCQE
  \/ SeenCQEs
  \/ ForEachCQE
  \/ DrainCQEs

SpecCQ == InitCQ /\ [][NextCQ]_vars

(***************************************************************************)
(* SpecEach: a consumer that takes completions with ForEachCQE only.       *)
(***************************************************************************)
NextEach ==
  \/ PrepNop
  \/ Submit
  \/ KernelComplete
  \/ ForEachCQE

SpecEach == InitCQ /\ [][NextEach]_vars

(***************************************************************************)
(* SpecEmpty: builders that take a buffer, called with empty and           *)
(* non-empty buffers, with Submit and the kernel completing.               *)
(***************************************************************************)
InitEmpty == Init /\ ~sqpoll

NextEmpty ==
  \/ PrepNop
  \/ PrepRead
  \/ PrepWrite
  \/ Submit
  \/ KernelComplete

SpecEmpty == InitEmpty /\ [][NextEmpty]_vars

(***************************************************************************)
(* SpecFull: long runs of PrepNop and Submit on a ring without kernel      *)
(* polling: the queue fills, drains in part and fills again.               *)
(***************************************************************************)
InitFull == Init /\ ~sqpoll

NextFull ==
  \/ PrepNopMany
  \/ Submit

SpecFull == InitFull /\ [][NextFull]_vars

(***************************************************************************)
(* SpecWait: Submit and SubmitAndWait on rings with and without kernel     *)
(* polling, while the kernel consumes and completes.                       *)
(***************************************************************************)
NextWait ==
  \/ PrepNop
  \/ Submit
  \/ SubmitAndWait
  \/ SubmitAndWait_return
  \/ KernelPollConsume
  \/ KernelPollPark
  \/ KernelComplete

SpecWait == Init /\ [][NextWait]_vars

(***************************************************************************)
(* SpecConc: one goroutine calling PrepNop, one calling Submit and one     *)
(* calling Close, interleaved at the granularity of the mutex operations,  *)
(* the closed-flag load and swap, the munmap calls and the enter call, on  *)
(* a ring without kernel polling.                                          *)
(***************************************************************************)
Lock_Absent(t) == UNCHANGED sqLock

\* r.sqLock.Lock(): the caller proceeds once the mutex is free.
Lock(t) == sqLock = "free" /\ sqLock' = t

Unlock_Missing(t) == UNCHANGED sqLock

\* r.sqLock.Unlock()
Unlock(t) == sqLock' = "free"

At(t, where) == ~halted /\ pc[t] = where

Goto(t, where) == pc' = [pc EXCEPT ![t] = where]

\* PrepNop: r.sqLock.Lock()
PrepNop_lock ==
  /\ At("prod", "idle")
  /\ Len(resLog) < MaxReserve
  /\ Lock("prod")
  /\ Goto("prod", "getSQE")
  /\ loc' = [loc EXCEPT !["prod"].tok = NextToken]
  /\ UNCHANGED <<cfgVars, envVars, closeLog, resVars, sqVars, sqPending,
                 cqVars, kernVars, halted, ret, sqHist, cqHist, regionUse>>

\* PrepNop: sqe := r.getSQE(); on nil the call unlocks and returns
\* ErrSQFull.
PrepNop_getSQE ==
  /\ At("prod", "getSQE")
  /\ \/ Fault("PrepNop", {"sqRing", "sqesMmap"}, {"nil", "ErrSQFull"})
     \/ /\ {"sqRing", "sqesMmap"} \subseteq mapped
        /\ Touch({"sqRing", "sqesMmap"})
        /\ IF getSQE_full
           THEN /\ Unlock("prod")
                /\ Goto("prod", "idle")
                /\ ret' = Ret("PrepNop", "ErrSQFull", 0, closed, FALSE)
                /\ resLog' = Append(resLog, FALSE)
                /\ UNCHANGED <<sqVars, sqPending, owner, loc>>
           ELSE /\ getSQE(ZeroSQE)
                /\ owner' = [owner EXCEPT ![getSQE_tail] = loc["prod"].tok]
                /\ Goto("prod", "fill")
                /\ loc' = [loc EXCEPT !["prod"].idx = getSQE_idx]
                /\ resLog' = Append(resLog, TRUE)
                /\ UNCHANGED <<sqLock, ret>>
        /\ UNCHANGED <<cfgVars, envVars, closeLog, resVars, cqVars, kernVars,
                       halted, covered, cqHist>>

\* PrepNop: the field writes through the pointer getSQE returned, then
\* Unlock.
PrepNop_fill ==
  /\ At("prod", "fill")
  /\ \/ Fault("PrepNop", {"sqesMmap"}, {"nil"})
     \/ /\ "sqesMmap" \in mapped
        /\ Touch({"sqesMmap"})
        /\ sqes' = [sqes EXCEPT ![loc["prod"].idx] = NopSQE(loc["prod"].tok)]
        /\ Unlock("prod")
        /\ Goto("prod", "idle")
        /\ ret' = Ret("PrepNop", "nil", 0, closed, FALSE)
        /\ UNCHANGED <<cfgVars, envVars, closeLog, resVars, sqHead, sqTail,
                       sqFlags, sqArray, sqPending, cqVars, kernVars, loc,
                       halted, sqHist, cqHist>>

\* Submit: if r.closed.Load() { return 0, ErrRingClosed }
Submit_closedCheck ==
  /\ At("sub", "idle")
  /\ IF closed
     THEN /\ ret' = Ret("Submit", "ErrRingClosed", 0, TRUE, FALSE)
          /\ UNCHANGED pc
     ELSE /\ Goto("sub", "lock")
          /\ UNCHANGED ret
  /\ UNCHANGED <<cfgVars, envVars, closeLog, resVars, sqVars, libVars, cqVars,
                 kernVars, loc, halted, sqHist, cqHist, regionUse>>

\* Submit: r.sqLock.Lock()
Submit_lock ==
  /\ At("sub", "lock")
  /\ Lock("sub")
  /\ Goto("sub", "publish")
  /\ UNCHANGED <<cfgVars, envVars, closeLog, resVars, sqVars, sqPending,
                 cqVars, kernVars, loc, halted, ret, sqHist, cqHist,
                 regionUse>>

\* Submit: the critical section, from submitted := r.sqPending to Unlock.
Submit_critical ==
  /\ At("sub", "publish")
  /\ IF sqPending = 0
     THEN /\ Unlock("sub")
          /\ Goto("sub", "idle")
          /\ ret' = Ret("Submit", "nil", 0, FALSE, FALSE)
          /\ UNCHANGED <<sqVars, sqPending, loc, halted, regionUse>>
     ELSE \/ Fault("Submit", {"sqRing"}, {"nil", "errno"})
          \/ /\ "sqRing" \in mapped
             /\ Touch({"sqRing"})
             /\ Submit_publish(sqPending)
             /\ Unlock("sub")
             /\ Goto("sub", "enter")
             /\ loc' = [loc EXCEPT !["sub"].submitted = sqPending]
             /\ UNCHANGED <<sqHead, sqFlags, sqArray, sqes, halted, ret>>
  /\ UNCHANGED <<cfgVars, envVars, closeLog, resVars, cqVars, kernVars,
                 sqHist, cqHist>>

\* Submit: sys.Enter(r.fd, submitted, 0, flags, nil); a closed descriptor
\* makes the call fail.
Submit_enter ==
  /\ At("sub", "enter")
  /\ LET submitted == loc["sub"].submitted
         tokens == PublishedTokens(U32(sqTail - submitted), submitted)
     IN  IF Submit_elides(Submit_flags(needsWakeup))
         THEN /\ ret' = Ret("Submit", "nil", submitted, FALSE, FALSE)
              /\ covered' = covered \cup tokens
              /\ UNCHANGED <<sqHead, sqFlags, inflight>>
         ELSE IF ~fdOpen
         THEN /\ ret' = RetEnter("Submit", "errno", 0,
                                 EnterCall(submitted, 0,
                                           Submit_flags(needsWakeup)))
              /\ UNCHANGED <<sqHead, sqFlags, inflight, covered>>
         ELSE EnterSubmit("Submit", submitted, sqTail, tokens, needsWakeup)
  /\ Goto("sub", "idle")
  /\ UNCHANGED <<cfgVars, envVars, closeLog, resVars, sqTail, sqArray, sqes,
                 libVars, cqVars, loc, halted, resLog, owner, cqHist,
                 regionUse>>

\* Close: r.closed.Swap(true), by goroutine t.
Close_swapBy(t) ==
  /\ At(t, "idle")
  /\ closeLog.calls < MaxClose
  /\ closed' = TRUE
  /\ LET c == closeLog.calls + 1
     IN  /\ loc' = [loc EXCEPT ![t].call = c]
         /\ IF closed_Swap
            THEN /\ Goto(t, "alreadyClosed")
                 /\ closeLog' = [closeLog EXCEPT !.calls = c]
            ELSE /\ Goto(t, CloseSequence[1])
                 /\ closeLog' = [closeLog EXCEPT !.calls = c,
                                                 !.entered = @ \cup {c}]
  /\ UNCHANGED <<cfgVars, envVars, mapped, fdOpen, sqVars, libVars, cqVars,
                 kernVars, halted, ret, sqHist, cqHist, regionUse>>

\* Close: return nil // Already closed
Close_alreadyClosedBy(t) ==
  /\ At(t, "alreadyClosed")
  /\ ret' = Ret("Close", "nil", 0, TRUE, FALSE)
  /\ closeLog' = [closeLog EXCEPT !.rets = @ \cup {<<loc[t].call, "nil">>}]
  /\ Goto(t, "idle")
  /\ loc' = [loc EXCEPT ![t] = NoLocals]
  /\ UNCHANGED <<cfgVars, envVars, resVars, sqVars, libVars, cqVars, kernVars,
                 halted, sqHist, cqHist, regionUse>>

Close_after_SqesFirst(region) ==
  IF region = "cqRing" THEN "sqesMmap"
  ELSE IF region = "sqesMmap" THEN "sqRing"
  ELSE "closeFd"

\* The order of Close's munmap calls: cqRing, sqRing, sqesMmap, then the
\* descriptor.
Close_after(region) ==
  IF region = "cqRing" THEN "sqRing"
  ELSE IF region = "sqRing" THEN "sqesMmap"
  ELSE "closeFd"

\* Close: sys.Munmap of the next region, by goroutine t.
Close_munmapBy(t) ==
  /\ ~halted
  /\ pc[t] \in Regions
  /\ mapped' = mapped \ {pc[t]}
  /\ closeLog' = [closeLog EXCEPT
                    !.sys = Append(@, [call |-> loc[t].call, what |-> pc[t]])]
  /\ Goto(t, Close_after(pc[t]))
  /\ UNCHANGED <<cfgVars, envVars, closed, fdOpen, sqVars, libVars, cqVars,
                 kernVars, loc, halted, ret, sqHist, cqHist, regionUse>>

\* Close: return syscall.Close(r.fd), by goroutine t.  The descriptor is
\* released whether or not close reports an error.
Close_fdBy(t) ==
  /\ At(t, "closeFd")
  /\ fdOpen' = FALSE
  /\ \E e \in {"nil", "errno"} :
       /\ ret' = Ret("Close", e, 0, FALSE, FALSE)
       /\ closeLog' = [closeLog EXCEPT
                         !.sys = Append(@, [call |-> loc[t].call,
                                            what |-> "fd"]),
                         !.rets = @ \cup {<<loc[t].call, e>>}]
  /\ Goto(t, "idle")
  /\ loc' = [loc EXCEPT ![t] = NoLocals]
  /\ UNCHANGED <<cfgVars, envVars, closed, mapped, sqVars, libVars, cqVars,
                 kernVars, halted, sqHist, cqHist, regionUse>>

\* In SpecConc the closer calls Close once.
Close_swap == ~closed /\ Close_swapBy("closer")

Close_munmap == Close_munmapBy("closer")

Close_fd == Close_fdBy("closer")

InitConc == Init /\ ~sqpoll

NextConc ==
  \/ PrepNop_lock
  \/ PrepNop_getSQE
  \/ PrepNop_fill
  \/ Submit_closedCheck
  \/ Submit_lock
  \/ Submit_critical
  \/ Submit_enter
  \/ Close_swap
  \/ Close_munmap
  \/ Close_fd

SpecConc == InitConc /\ [][NextConc]_vars

(***************************************************************************)
(* SpecLock: a producer in PrepNop, a submitter in Submit and a caller of  *)
(* SubmitAndWait that blocks in enter, on an open ring without kernel      *)
(* polling, with no completion arriving.  A goroutine that is running      *)
(* keeps running (weak fairness of the steps made with the lock held),     *)
(* and sync.Mutex hands the lock to a goroutine that keeps waiting for it  *)
(* (strong fairness of the producer's Lock).                               *)
(***************************************************************************)
NextLock ==
  \/ PrepNop_lock
  \/ PrepNop_getSQE
  \/ PrepNop_fill
  \/ Submit_closedCheck
  \/ Submit_lock
  \/ Submit_critical
  \/ Submit_enter
  \/ SubmitAndWait
  \/ SubmitAndWait_return

FairLock ==
  /\ SF_vars(PrepNop_lock)
  /\ WF_vars(PrepNop_getSQE)
  /\ WF_vars(PrepNop_fill)
  /\ WF_vars(Submit_critical)

SpecLock == InitConc /\ [][NextLock]_vars /\ FairLock

(***************************************************************************)
(* SpecClose: goroutines that call Close, one call after another and at    *)
(* the same time, MaxClose calls in all.                                   *)
(***************************************************************************)
Closers == {"app", "sub", "closer"}

NextClose ==
  \/ \E t \in Closers : Close_swapBy(t)
  \/ \E t \in Closers : Close_alreadyClosedBy(t)
  \/ \E t \in Closers : Close_munmapBy(t)
  \/ \E t \in Closers : Close_fdBy(t)

SpecClose == InitConc /\ [][NextClose]_vars

(***************************************************************************)
(* SpecLife: New, step by step, with every syscall of it succeeding or     *)
(* failing, on kernels with and without IORING_FEAT_SINGLE_MMAP, and then  *)
(* the Close calls.  No goroutine has the ring before New returns it.      *)
(***************************************************************************)
\* New: the entries check and sys.Setup.
New_setup ==
  /\ At("app", "New")
  /\ \E entries \in {0, sqEntries} :
       IF entries = 0
       THEN /\ ret' = Ret("New", "EINVAL", 0, FALSE, FALSE)
            /\ Goto("app", "failed")
            /\ UNCHANGED <<cfgVars, resVars>>
       ELSE \/ /\ ret' = Ret("New", "errno", 0, FALSE, FALSE)
               /\ Goto("app", "failed")
               /\ UNCHANGED <<cfgVars, resVars>>
            \/ /\ fdOpen' = TRUE
               /\ sqpoll' = sqpoll
               /\ extArg' = extArg
               /\ singleMmap' \in BOOLEAN
               /\ Goto("app", "mmapSQ")
               /\ UNCHANGED <<closed, mapped, ret>>
  /\ UNCHANGED <<envVars, closeLog, sqVars, libVars, cqVars, kernVars, loc,
                 halted, sqHist, cqHist, regionUse>>

\* The region each mmap step of mapRings maps.
mapRings_region(step) ==
  IF step = "mmapSQ" THEN "sqRing"
  ELSE IF step = "mmapCQ" THEN "cqRing"
  ELSE "sqesMmap"

\* mapRings after a successful mmap: the completion ring is mapped only
\* when the kernel does not share the submission ring's mapping.
mapRings_next(step) ==
  IF step = "mmapSQ" THEN (IF singleMmap THEN "mmapSQEs" ELSE "mmapCQ")
  ELSE IF step = "mmapCQ" THEN "mmapSQEs"
  ELSE "idle"

mapRings_unwind_ForgetsCQ(step) ==
  IF step = "mmapSQ" THEN "failClose" ELSE "unwindSQ"

\* mapRings after a failed mmap: the munmap calls it makes before it
\* returns the error.
mapRings_unwind(step) ==
  IF step = "mmapSQ" THEN "failClose"
  ELSE IF step = "mmapCQ" THEN "unwindSQ"
  ELSE IF singleMmap THEN "unwindSQ" ELSE "unwindCQ"

\* mapRings: one sys.Mmap call.  After the last one New returns the ring.
mapRings_mmap ==
  /\ ~halted
  /\ pc["app"] \in {"mmapSQ", "mmapCQ", "mmapSQEs"}
  /\ \/ /\ mapped' = mapped \cup {mapRings_region(pc["app"])}
        /\ closeLog' = [closeLog EXCEPT
                          !.maps = Append(@, mapRings_region(pc["app"]))]
        /\ IF mapRings_next(pc["app"]) = "idle"
           THEN /\ pc' = [t \in Threads |-> "idle"]
                /\ ret' = Ret("New", "nil", 0, FALSE, FALSE)
           ELSE /\ Goto("app", mapRings_next(pc["app"]))
                /\ UNCHANGED ret
     \/ /\ Goto("app", mapRings_unwind(pc["app"]))
        /\ UNCHANGED <<mapped, closeLog, ret>>
  /\ UNCHANGED <<cfgVars, envVars, closed, fdOpen, sqVars, libVars, cqVars,
                 kernVars, loc, halted, sqHist, cqHist, regionUse>>

\* mapRings: sys.Munmap of a region mapped before the mmap that failed.
mapRings_munmap ==
  /\ ~halted
  /\ pc["app"] \in {"unwindCQ", "unwindSQ"}
  /\ IF pc["app"] = "unwindCQ"
     THEN mapped' = mapped \ {"cqRing"} /\ Goto("app", "unwindSQ")
     ELSE mapped' = mapped \ {"sqRing"} /\ Goto("app", "failClose")
  /\ UNCHANGED <<cfgVars, envVars, closeLog, closed, fdOpen, sqVars, libVars,
                 cqVars, kernVars, loc, halted, ret, sqHist, cqHist,
                 regionUse>>

\* New: syscall.Close(fd); return nil, err
New_failClose ==
  /\ At("app", "failClose")
  /\ fdOpen' = FALSE
  /\ ret' = Ret("New", "errno", 0, FALSE, FALSE)
  /\ Goto("app", "failed")
  /\ UNCHANGED <<cfgVars, envVars, closeLog, closed, mapped, sqVars, libVars,
                 cqVars, kernVars, loc, halted, sqHist, cqHist, regionUse>>

\* The process before New: no descriptor, nothing mapped.
InitLife ==
  /\ sqpoll = FALSE
  /\ singleMmap = FALSE
  /\ extArg = FALSE
  /\ now = 0
  /\ ctxDone = FALSE
  /\ probe = NoProbe
  /\ params = ZeroParams
  /\ opts = <<>>
  /\ closed = FALSE
  /\ mapped = {}
  /\ fdOpen = FALSE
  /\ sqHead = 0 /\ sqTail = 0 /\ cqHead = 0 /\ cqTail = 0
  /\ sqArray = [i \in 0..sqMask |-> 0]
  /\ sqFlags = 0
  /\ sqes = [i \in 0..sqMask |-> ZeroSQE]
  /\ sqPending = 0
  /\ sqLock = "free"
  /\ cqes = [i \in 0..cqMask |-> ZeroCQE]
  /\ inflight = <<>>
  /\ pc = [t \in Threads |-> IF t = "app" THEN "New" ELSE "noRing"]
  /\ loc = [t \in Threads |-> NoLocals]
  /\ halted = FALSE
  /\ ret = Ret("none", "nil", 0, FALSE, FALSE)
  /\ resLog = <<>>
  /\ owner = [p \in 0..(Mod - 1) |-> 0]
  /\ covered = {}
  /\ posted = <<>>
  /\ seen = <<>>
  /\ peeked = NoPeek
  /\ cqAdv = 0
  /\ consumer = "strict"
  /\ regionUse = "ok"
  /\ closeLog = [NoCloses EXCEPT !.maps = <<>>]

NextLife ==
  \/ New_setup
  \/ mapRings_mmap
  \/ mapRings_munmap
  \/ New_failClose
  \/ \E t \in Closers : Close_swapBy(t)
  \/ \E t \in Closers : Close_alreadyClosedBy(t)
  \/ \E t \in Closers : Close_munmapBy(t)
  \/ \E t \in Closers : Close_fdBy(t)

SpecLife == InitLife /\ [][NextLife]_vars

(***************************************************************************)
(* The waiting calls: WaitCQE, WaitCQETimeout (with the extended enter     *)
(* argument, and its polling fallback without) and WaitCQEContext, each    *)
(* split at the points where the kernel or the clock can move.  One tick   *)
(* of the clock stands for the 100 ms slice WaitCQEContext waits for.      *)
(***************************************************************************)
Timeouts == 0..(MaxTime - 1)

\* WaitCQEContext: r.WaitCQETimeout(100 * time.Millisecond)
CtxSlice == 1

waitFrame == <<cfgVars, envVars, resVars, closeLog, cqVars, halted, resLog,
               owner, posted, seen, cqAdv, consumer>>

sqFrame == <<sqVars, libVars, kernVars, covered>>

\* A function of the call returns.  WaitCQEContext goes round its loop
\* when its WaitCQETimeout returns ETIME and returns to the caller whatever
\* else it returns.
Wait_finish(ok, err, cqe) ==
  IF /\ loc["app"].op = "WaitCQEContext"
     /\ loc["app"].fn = "WaitCQETimeout"
     /\ err = "ETIME"
  THEN /\ Goto("app", "ctxCheck")
       /\ loc' = [loc EXCEPT !["app"].fn = "WaitCQEContext"]
       /\ UNCHANGED <<ret, peeked>>
  ELSE /\ ret' = [RetCQE(loc["app"].op, ok, cqe, FALSE,
                         ok /\ Available <= 0) EXCEPT !.err = err]
       /\ peeked' = IF ok THEN cqe ELSE peeked
       /\ Goto("app", "idle")
       /\ loc' = [loc EXCEPT !["app"] = NoLocals]

\* The entry of the three calls: if r.closed.Load() { return ErrRingClosed }
Wait_call(op, timeout) ==
  /\ Running
  /\ IF closed
     THEN /\ ret' = Ret(op, "ErrRingClosed", 0, TRUE, FALSE)
          /\ UNCHANGED <<pc, loc>>
     ELSE /\ Goto("app", "peek")
          /\ loc' = [loc EXCEPT !["app"] =
                       [NoLocals EXCEPT !.op = op, !.fn = op,
                                        !.timeout = timeout]]
          /\ UNCHANGED ret
  /\ UNCHANGED <<waitFrame, sqFrame, peeked, regionUse>>

WaitCQE == Wait_call("WaitCQE", 0)

WaitCQETimeout == \E timeout \in Timeouts : Wait_call("WaitCQETimeout", timeout)

WaitCQEContext == Wait_call("WaitCQEContext", 0)

\* The PeekCQE each call makes first ("Try non-blocking first"), and where
\* the call goes when the queue is empty.
Wait_peek ==
  /\ At("app", "peek")
  /\ Touch({"cqRing"})
  /\ IF ~PeekCQE_empty(cqHead, cqTail)
     THEN Wait_finish(TRUE, "nil", cqes[PeekCQE_idx(cqHead)])
     ELSE /\ UNCHANGED <<ret, peeked>>
          /\ IF loc["app"].fn = "WaitCQE"
             THEN Goto("app", "submit") /\ UNCHANGED loc
             ELSE IF loc["app"].fn = "WaitCQEContext"
             THEN Goto("app", "ctxCheck") /\ UNCHANGED loc
             ELSE IF extArg
             THEN Goto("app", "enterExt") /\ UNCHANGED loc
             ELSE /\ Goto("app", "pollPeek")
                  /\ loc' = [loc EXCEPT !["app"].deadline =
                                          now + loc["app"].timeout]
  /\ UNCHANGED <<waitFrame, sqFrame>>

\* WaitCQEContext: select on ctx.Done(), then WaitCQETimeout(100 ms), which
\* begins with its own closed check.
WaitCQEContext_check ==
  /\ At("app", "ctxCheck")
  /\ IF ctxDone
     THEN Wait_finish(FALSE, "Canceled", ZeroCQE)
     ELSE IF closed
     THEN Wait_finish(FALSE, "ErrRingClosed", ZeroCQE)
     ELSE /\ Goto("app", "peek")
          /\ loc' = [loc EXCEPT !["app"].fn = "WaitCQETimeout",
                                !["app"].timeout = CtxSlice]
          /\ UNCHANGED <<ret, peeked>>
  /\ UNCHANGED <<waitFrame, sqFrame, regionUse>>

waitCQETimeoutPoll_expired_Strict(t, deadline) == deadline - t < 0

\* remaining := time.Until(deadline); if remaining <= 0 { return ETIME }
waitCQETimeoutPoll_expired(t, deadline) == deadline - t <= 0

\* waitCQETimeoutPoll: the head of its loop.
waitCQETimeoutPoll_peek ==
  /\ At("app", "pollPeek")
  /\ Touch({"cqRing"})
  /\ IF ~PeekCQE_empty(cqHead, cqTail)
     THEN Wait_finish(TRUE, "nil", cqes[PeekCQE_idx(cqHead)])
     ELSE IF waitCQETimeoutPoll_expired(now, loc["app"].deadline)
     THEN Wait_finish(FALSE, "ETIME", ZeroCQE)
     ELSE /\ Goto("app", "submit")
          /\ UNCHANGED <<loc, ret, peeked>>
  /\ UNCHANGED <<waitFrame, sqFrame>>

\* SubmitAndWait(1) returns an error to WaitCQE or waitCQETimeoutPoll:
\* WaitCQE returns it, waitCQETimeoutPoll continues on EINTR.
Wait_error(e) ==
  IF loc["app"].fn = "WaitCQE" \/ e # "EINTR"
  THEN Wait_finish(FALSE, e, ZeroCQE)
  ELSE /\ Goto("app", "pollPeek")
       /\ UNCHANGED <<loc, ret, peeked>>

\* The tail store of a waiting call and the entries its enter call takes:
\* as for SubmitAndWait.
SubmitAndWait_flags_NoWakeup(wake) == IORING_ENTER_GETEVENTS

\* var flags uint32 = sys.IORING_ENTER_GETEVENTS
\* if r.needsWakeup() { flags |= sys.IORING_ENTER_SQ_WAKEUP }
SubmitAndWait_flags(wake) ==
  BitOr(IORING_ENTER_GETEVENTS, IF wake THEN IORING_ENTER_SQ_WAKEUP ELSE 0)

WaitCQETimeout_flags_NoGetEvents == IORING_ENTER_EXT_ARG

\* sys.EnterExt(r.fd, submitted, 1, sys.IORING_ENTER_GETEVENTS, &arg), which
\* ORs in IORING_ENTER_EXT_ARG; needsWakeup is not consulted.
WaitCQETimeout_flags == BitOr(IORING_ENTER_GETEVENTS, IORING_ENTER_EXT_ARG)

\* The enter call a waiting function is blocked in.
Wait_entering(flags) ==
  [loc EXCEPT !["app"].enter = EnterCall(sqPending, 1, flags)]

Wait_publishAndEnter(where, flags) ==
  LET submitted == sqPending
      newTail == Submit_newTail(sqTail, submitted)
      tokens == PublishedTokens(sqTail, submitted)
  IN  /\ IF submitted > 0
         THEN Submit_publish(submitted) /\ Touch({"sqRing"})
         ELSE UNCHANGED <<sqTail, sqPending, regionUse>>
      /\ UNCHANGED <<sqLock, sqArray, sqes>>
      /\ Goto("app", where)
      /\ IF sqpoll
         THEN /\ sqFlags' = IF BitAnd(flags, IORING_ENTER_SQ_WAKEUP) # 0
                            THEN 0 ELSE sqFlags
              /\ covered' = covered \cup tokens
              /\ UNCHANGED <<sqHead, inflight>>
         ELSE \E k \in (IF submitted = 0 THEN {0}
                        ELSE 1..Min(submitted, U32(newTail - sqHead))) :
                /\ sqHead' = U32(sqHead + k)
                /\ inflight' = inflight \o Consumed(k)
                /\ covered' = IF k = submitted THEN covered \cup tokens
                              ELSE covered
                /\ UNCHANGED sqFlags

\* _, err = r.SubmitAndWait(1), up to the point where enter blocks.  The
\* enter call has no timeout.
Wait_submitAndWait ==
  /\ At("app", "submit")
  /\ IF closed
     THEN /\ Wait_finish(FALSE, "ErrRingClosed", ZeroCQE)
          /\ UNCHANGED <<sqFrame, regionUse>>
     ELSE \/ /\ Wait_publishAndEnter("blocked",
                                     SubmitAndWait_flags(needsWakeup))
             /\ loc' = Wait_entering(SubmitAndWait_flags(needsWakeup))
             /\ UNCHANGED <<ret, peeked>>
          \/ /\ IF sqPending > 0
                THEN Submit_publish(sqPending) /\ Touch({"sqRing"})
                ELSE UNCHANGED <<sqTail, sqPending, regionUse>>
             /\ \E e \in {"EINTR", "errno"} : Wait_error(e)
             /\ UNCHANGED <<sqHead, sqFlags, sqArray, sqes, sqLock, inflight,
                            covered>>
  /\ UNCHANGED waitFrame

\* The enter call of SubmitAndWait(1) returns: the completion ring holds
\* an entry.
Wait_enterReturns ==
  /\ At("app", "blocked")
  /\ U32(cqTail - cqHead) >= 1
  /\ Goto("app", IF loc["app"].fn = "WaitCQE" THEN "peek2" ELSE "pollPeek")
  /\ UNCHANGED <<waitFrame, sqFrame, loc, ret, peeked, regionUse>>

\* A signal interrupts the enter call of SubmitAndWait(1).
Wait_signal ==
  /\ At("app", "blocked")
  /\ Wait_error("EINTR")
  /\ UNCHANGED <<waitFrame, sqFrame, regionUse>>

\* WaitCQE after SubmitAndWait: the second PeekCQE, else EAGAIN.
WaitCQE_peek2 ==
  /\ At("app", "peek2")
  /\ Touch({"cqRing"})
  /\ IF ~PeekCQE_empty(cqHead, cqTail)
     THEN Wait_finish(TRUE, "nil", cqes[PeekCQE_idx(cqHead)])
     ELSE Wait_finish(FALSE, "EAGAIN", ZeroCQE)
  /\ UNCHANGED <<waitFrame, sqFrame>>

\* WaitCQETimeout with IORING_FEAT_EXT_ARG: the critical section and
\* sys.EnterExt(r.fd, submitted, 1, IORING_ENTER_GETEVENTS, &arg); the
\* kernel's timer runs from the call.
WaitCQETimeout_enterExt ==
  /\ At("app", "enterExt")
  /\ \/ /\ Wait_publishAndEnter("waitingExt", WaitCQETimeout_flags)
        /\ loc' = [Wait_entering(WaitCQETimeout_flags) EXCEPT
                     !["app"].deadline = now + loc["app"].timeout]
        /\ UNCHANGED <<ret, peeked>>
     \/ /\ IF sqPending > 0
           THEN Submit_publish(sqPending) /\ Touch({"sqRing"})
           ELSE UNCHANGED <<sqTail, sqPending, regionUse>>
        /\ Wait_finish(FALSE, "errno", ZeroCQE)
        /\ UNCHANGED <<sqHead, sqFlags, sqArray, sqes, sqLock, inflight,
                       covered>>
  /\ UNCHANGED waitFrame

\* EnterExt returns: with an entry in the completion ring, or with ETIME
\* once the timer has run out, which WaitCQETimeout returns as it is.
WaitCQETimeout_extReturns ==
  /\ At("app", "waitingExt")
  /\ IF U32(cqTail - cqHead) >= 1
     THEN /\ Goto("app", "extPeek")
          /\ UNCHANGED <<loc, ret, peeked>>
     ELSE /\ now >= loc["app"].deadline
          /\ Wait_finish(FALSE, "ETIME", ZeroCQE)
  /\ UNCHANGED <<waitFrame, sqFrame, regionUse>>

\* WaitCQETimeout after EnterExt: PeekCQE, else ETIME.
WaitCQETimeout_extPeek ==
  /\ At("app", "extPeek")
  /\ Touch({"cqRing"})
  /\ IF ~PeekCQE_empty(cqHead, cqTail)
     THEN Wait_finish(TRUE, "nil", cqes[PeekCQE_idx(cqHead)])
     ELSE Wait_finish(FALSE, "ETIME", ZeroCQE)
  /\ UNCHANGED <<waitFrame, sqFrame>>

\* The clock advances.
Tick ==
  /\ now < MaxTime
  /\ now' = now + 1
  /\ UNCHANGED <<cfgVars, ctxDone, probe, params, opts, resVars, sqVars,
                 libVars, cqVars, kernVars, thrVars, ret, sqHist, cqHist,
                 regionUse, closeLog>>

\* The context passed to WaitCQEContext is cancelled.
Cancel ==
  /\ ~ctxDone
  /\ ctxDone' = TRUE
  /\ UNCHANGED <<cfgVars, now, probe, params, opts, resVars, sqVars,
                 libVars, cqVars, kernVars, thrVars, ret, sqHist, cqHist,
                 regionUse, closeLog>>

(***************************************************************************)
(* SpecWaitCQE: a single goroutine that reserves no-ops, peeks, releases   *)
(* and calls WaitCQE, while the kernel completes requests.                 *)
(***************************************************************************)
NextWaitCQE ==
  \/ PrepNop
  \/ KernelComplete
  \/ PeekCQE
  \/ SeenCQE
  \/ WaitCQE
  \/ Wait_peek
  \/ Wait_submitAndWait
  \/ Wait_enterReturns
  \/ Wait_signal
  \/ WaitCQE_peek2

SpecWaitCQE == InitCQ /\ [][NextWaitCQE]_vars

(***************************************************************************)
(* SpecTimed: a single goroutine that reserves no-ops and calls            *)
(* WaitCQETimeout and WaitCQEContext, on rings with and without            *)
(* IORING_FEAT_EXT_ARG, while the kernel completes requests, the clock     *)
(* advances and the context is cancelled.                                  *)
(***************************************************************************)
\* A new ring, with or without the extended enter argument.
InitTimed ==
  /\ sqpoll = FALSE
  /\ singleMmap = FALSE
  /\ extArg \in BOOLEAN
  /\ InitRing
  /\ sqHead = 0

NextTimed ==
  \/ PrepNop
  \/ KernelComplete
  \/ WaitCQETimeout
  \/ WaitCQEContext
  \/ Wait_peek
  \/ WaitCQEContext_check
  \/ waitCQETimeoutPoll_peek
  \/ Wait_submitAndWait
  \/ Wait_enterReturns
  \/ Wait_signal
  \/ WaitCQETimeout_enterExt
  \/ WaitCQETimeout_extReturns
  \/ WaitCQETimeout_extPeek
  \/ Tick
  \/ Cancel

SpecTimed == InitTimed /\ [][NextTimed]_vars

(***************************************************************************)
(* SpecWaits: SpecTimed with WaitCQE as well, so that one goroutine makes  *)
(* all three waiting calls, under a context that is never cancelled.      *)
(***************************************************************************)
NextWaits ==
  \/ PrepNop
  \/ KernelComplete
  \/ WaitCQE
  \/ WaitCQETimeout
  \/ WaitCQEContext
  \/ Wait_peek
  \/ WaitCQEContext_check
  \/ waitCQETimeoutPoll_peek
  \/ Wait_submitAndWait
  \/ Wait_enterReturns
  \/ Wait_signal
  \/ WaitCQE_peek2
  \/ WaitCQETimeout_enterExt
  \/ WaitCQETimeout_extReturns
  \/ WaitCQETimeout_extPeek
  \/ Tick

SpecWaits == InitTimed /\ [][NextWaits]_vars

(***************************************************************************)
(* SubmitAndWait(0) as one step: with min_complete = 0 the enter call      *)
(* returns without waiting, so the whole call is atomic like Submit.       *)
(***************************************************************************)
SubmitAndWait_result_Zero(toSubmit, result) == 0

\* result, err := sys.Enter(...); return result, nil
SubmitAndWait_result(toSubmit, result) == result

\* io_uring_enter(fd, toSubmit, 0, GETEVENTS | flags): the call fails having
\* taken nothing, or takes entries as for Submit and returns at once.
EnterNoWait(toSubmit, newTail, tokens, wake) ==
  \E failed \in BOOLEAN :
    IF failed
    THEN /\ ret' = Ret("SubmitAndWait", "errno", 0, FALSE, TRUE)
         /\ UNCHANGED <<sqHead, sqFlags, inflight, covered>>
    ELSE IF sqpoll
    THEN /\ sqFlags' = IF wake THEN 0 ELSE sqFlags
         /\ covered' = covered \cup tokens
         /\ ret' = Ret("SubmitAndWait", "nil",
                       SubmitAndWait_result(toSubmit, toSubmit), FALSE, TRUE)
         /\ UNCHANGED <<sqHead, inflight>>
    ELSE \E k \in (IF toSubmit = 0 THEN {0}
                   ELSE 1..Min(toSubmit, U32(newTail - sqHead))) :
           /\ sqHead' = U32(sqHead + k)
           /\ inflight' = inflight \o Consumed(k)
           /\ covered' = IF k = toSubmit THEN covered \cup tokens
                         ELSE covered
           /\ ret' = Ret("SubmitAndWait", "nil",
                         SubmitAndWait_result(toSubmit, k), FALSE, TRUE)
           /\ UNCHANGED sqFlags

SubmitAndWait_zero ==
  /\ AppCan
  /\ IF closed
     THEN /\ ret' = Ret("SubmitAndWait", "ErrRingClosed", 0, TRUE, FALSE)
          /\ UNCHANGED <<sqVars, libVars, kernVars, covered, regionUse>>
     ELSE LET submitted == sqPending
              newTail == Submit_newTail(sqTail, submitted)
              tokens == PublishedTokens(sqTail, submitted)
          IN  /\ IF submitted > 0
                 THEN Submit_publish(submitted)
                 ELSE UNCHANGED <<sqTail, sqPending>>
              /\ IF submitted > 0 \/ sqpoll
                 THEN Touch({"sqRing"})
                 ELSE UNCHANGED regionUse
              /\ UNCHANGED <<sqLock, sqArray, sqes>>
              /\ EnterNoWait(submitted, newTail, tokens, needsWakeup)
  /\ UNCHANGED <<cfgVars, envVars, closeLog, resVars, cqVars, thrVars, resLog,
                 owner, cqHist>>

\* What a PeekCQE made now would report: nothing, or the entry at the head.
PeekCQE_now ==
  IF PeekCQE_empty(cqHead, cqTail) THEN <<>>
  ELSE <<cqes[PeekCQE_idx(cqHead)]>>

(***************************************************************************)
(* SpecEquiv: Submit, SubmitAndWait(0) and the completion path on rings    *)
(* with and without kernel polling.                                        *)
(***************************************************************************)
NextEquiv ==
  \/ PrepNop
  \/ Submit
  \/ SubmitAndWait_zero
  \/ KernelPollConsume
  \/ KernelPollPark
  \/ KernelComplete
  \/ SeenCQE

SpecEquiv == Init /\ [][NextEquiv]_vars

(***************************************************************************)
(* Probe: the operation-support table.                                     *)
(***************************************************************************)
\* type Op uint8
Opcodes == 0..255

\* Kernels by the last opcode they know: older than, as old as and newer
\* than the library's table, each with every opcode up to the last
\* supported or with one opcode in the middle unsupported.
KernelLastOps == {0, 1, 30, IORING_OP_LAST - 2, IORING_OP_LAST - 1,
                  IORING_OP_LAST, IORING_OP_LAST + 3, 255}

Kernels ==
  {[lastOp |-> l, off |-> o] : l \in KernelLastOps, o \in {{}, {1}, {30}}}

\* IORING_REGISTER_PROBE with nr_args = IORING_OP_LAST: the kernel stores
\* its own last opcode and fills the entries of the table it was given, as
\* many as it knows; the rest of the Go array stays zero.
RegisterProbe_fill(kernel) ==
  [called |-> TRUE,
   LastOp |-> kernel.lastOp,
   Ops |-> [i \in 0..(IORING_OP_LAST - 1) |->
              IF i <= kernel.lastOp /\ i \notin kernel.off
              THEN IO_URING_OP_SUPPORTED ELSE 0],
   kernel |-> kernel, op |-> 0, res |-> "none"]

probeFrame == <<cfgVars, now, ctxDone, params, opts, closeLog, resVars,
                sqVars, libVars, cqVars, kernVars, pc, loc, sqHist, cqHist,
                regionUse>>

\* Ring.Probe: a failed register call returns nil and the error.
Probe ==
  /\ Running
  /\ ~probe.called
  /\ \/ /\ ret' = Ret("Probe", "errno", 0, closed, FALSE)
        /\ UNCHANGED probe
     \/ \E kernel \in Kernels :
          /\ probe' = RegisterProbe_fill(kernel)
          /\ ret' = Ret("Probe", "nil", 0, closed, FALSE)
  /\ UNCHANGED <<probeFrame, halted>>

\* if uint8(op) > p.probe.LastOp { return false }
\* return p.probe.Ops[op].Flags&sys.IO_URING_OP_SUPPORTED != 0
\* An index at or past the array's length is a run-time panic.
SupportsOp_result(p, op) ==
  IF op > p.LastOp THEN "false"
  ELSE IF op >= IORING_OP_LAST THEN "panic"
  ELSE IF BitAnd(p.Ops[op], IO_URING_OP_SUPPORTED) # 0 THEN "true"
  ELSE "false"

SupportsOp ==
  \E op \in Opcodes :
    /\ Running
    /\ probe.called
    /\ probe' = [probe EXCEPT !.op = op, !.res = SupportsOp_result(probe, op)]
    /\ halted' = (SupportsOp_result(probe, op) = "panic")
    /\ UNCHANGED <<probeFrame, ret>>

NextProbe ==
  \/ Probe
  \/ SupportsOp

SpecProbe == InitCQ /\ [][NextProbe]_vars

(***************************************************************************)
(* Options: New applies each option to a zero sys.Params, in the order     *)
(* given, before the setup call.                                           *)
(***************************************************************************)
MaxOpts == 3
IORING_SETUP_IOPOLL == 1
IORING_SETUP_SQPOLL == 2
IORING_SETUP_SQ_AFF == 4
IORING_SETUP_CQSIZE == 8
IORING_SETUP_CLAMP == 16
IORING_SETUP_COOP_TASKRUN == 256
IORING_SETUP_SINGLE_ISSUER == 4096
IORING_SETUP_DEFER_TASKRUN == 8192

\* Arguments the options are called with.
CPUs == {0, 1}
IdleTimes == {0, 1}
CQSizes == {4}
FlagArgs == {IORING_SETUP_SQPOLL, IORING_SETUP_CLAMP,
             BitOr(IORING_SETUP_SQPOLL, IORING_SETUP_SQ_AFF)}

WithSQPoll(p) == [p EXCEPT !.Flags = BitOr(@, IORING_SETUP_SQPOLL)]

WithSQPollCPU_ForcesPoll(p, cpu) ==
  [p EXCEPT !.Flags = BitOr(@, BitOr(IORING_SETUP_SQ_AFF,
                                     IORING_SETUP_SQPOLL)),
            !.SQThreadCPU = cpu]

WithSQPollCPU(p, cpu) ==
  [p EXCEPT !.Flags = BitOr(@, IORING_SETUP_SQ_AFF), !.SQThreadCPU = cpu]

WithSQPollIdle(p, ms) == [p EXCEPT !.SQThreadIdle = ms]

WithIOPoll(p) == [p EXCEPT !.Flags = BitOr(@, IORING_SETUP_IOPOLL)]

WithCQSize(p, size) ==
  [p EXCEPT !.Flags = BitOr(@, IORING_SETUP_CQSIZE), !.CQEntries = size]

WithSingleIssuer(p) ==
  [p EXCEPT !.Flags = BitOr(@, IORING_SETUP_SINGLE_ISSUER)]

WithDeferTaskrun(p) ==
  [p EXCEPT !.Flags = BitOr(@, BitOr(IORING_SETUP_DEFER_TASKRUN,
                                     IORING_SETUP_SINGLE_ISSUER))]

WithCoopTaskrun(p) ==
  [p EXCEPT !.Flags = BitOr(@, IORING_SETUP_COOP_TASKRUN)]

WithFlags(p, flags) == [p EXCEPT !.Flags = BitOr(@, flags)]

\* for _, opt := range opts { opt(&params) }: one iteration.
New_option(name, arg, after) ==
  /\ Running
  /\ Len(opts) < MaxOpts
  /\ params' = after
  /\ opts' = Append(opts, [name |-> name, arg |-> arg])
  /\ UNCHANGED <<cfgVars, now, ctxDone, probe, closeLog, resVars, sqVars,
                 libVars, cqVars, kernVars, thrVars, ret, sqHist, cqHist,
                 regionUse>>

NextOptions ==
  \/ New_option("WithSQPoll", 0, WithSQPoll(params))
  \/ \E cpu \in CPUs :
       New_option("WithSQPollCPU", cpu, WithSQPollCPU(params, cpu))
  \/ \E ms \in IdleTimes :
       New_option("WithSQPollIdle", ms, WithSQPollIdle(params, ms))
  \/ New_option("WithIOPoll", 0, WithIOPoll(params))
  \/ \E size \in CQSizes :
       New_option("WithCQSize", size, WithCQSize(params, size))
  \/ New_option("WithSingleIssuer", 0, WithSingleIssuer(params))
  \/ New_option("WithDeferTaskrun", 0, WithDeferTaskrun(params))
  \/ New_option("WithCoopTaskrun", 0, WithCoopTaskrun(params))
  \/ \E flags \in FlagArgs :
       New_option("WithFlags", flags, WithFlags(params, flags))

SpecOptions == InitCQ /\ [][NextOptions]_vars

(***************************************************************************)
(* GetSQE, step by step: the lock covers getSQE only; the caller writes    *)
(* the entry through the returned pointer after the unlock.                *)
(***************************************************************************)
\* GetSQE: r.sqLock.Lock()
GetSQE_lock ==
  /\ At("prod", "idle")
  /\ Len(resLog) < MaxReserve
  /\ Lock("prod")
  /\ Goto("prod", "getSQE")
  /\ loc' = [loc EXCEPT !["prod"].tok = NextToken]
  /\ UNCHANGED <<cfgVars, envVars, closeLog, resVars, sqVars, sqPending,
                 cqVars, kernVars, halted, ret, sqHist, cqHist, regionUse>>

\* GetSQE: sqe := r.getSQE(); r.sqLock.Unlock(); return sqe
GetSQE_getSQE ==
  /\ At("prod", "getSQE")
  /\ {"sqRing", "sqesMmap"} \subseteq mapped
  /\ Touch({"sqRing", "sqesMmap"})
  /\ Unlock("prod")
  /\ IF getSQE_full
     THEN /\ Goto("prod", "idle")
          /\ ret' = Ret("GetSQE", "nil", 0, closed, FALSE)
          /\ resLog' = Append(resLog, FALSE)
          /\ UNCHANGED <<sqVars, sqPending, owner, loc>>
     ELSE /\ getSQE(ZeroSQE)
          /\ owner' = [owner EXCEPT ![getSQE_tail] = loc["prod"].tok]
          /\ Goto("prod", "populate")
          /\ loc' = [loc EXCEPT !["prod"].idx = getSQE_idx]
          /\ ret' = [Ret("GetSQE", "nil", 0, closed, FALSE)
                       EXCEPT !.ok = TRUE]
          /\ resLog' = Append(resLog, TRUE)
  /\ UNCHANGED <<cfgVars, envVars, closeLog, resVars, cqVars, kernVars,
                 halted, covered, cqHist>>

\* The caller of GetSQE writes the entry, holding no lock.
GetSQE_populate ==
  /\ At("prod", "populate")
  /\ "sqesMmap" \in mapped
  /\ Touch({"sqesMmap"})
  /\ sqes' = [sqes EXCEPT ![loc["prod"].idx] = NopSQE(loc["prod"].tok)]
  /\ Goto("prod", "idle")
  /\ UNCHANGED <<cfgVars, envVars, closeLog, resVars, sqHead, sqTail,
                 sqFlags, sqArray, libVars, cqVars, kernVars, loc, halted,
                 ret, sqHist, cqHist>>

(***************************************************************************)
(* SpecGet: one goroutine reserves entries with GetSQE and fills them in   *)
(* while another calls Submit.                                             *)
(***************************************************************************)
NextGet ==
  \/ GetSQE_lock
  \/ GetSQE_getSQE
  \/ GetSQE_populate
  \/ Submit_closedCheck
  \/ Submit_lock
  \/ Submit_critical
  \/ Submit_enter

SpecGet == InitConc /\ [][NextGet]_vars

(***************************************************************************)
(* SpecMany: two goroutines, each of which reserves (a Prep* builder) or   *)
(* publishes (the critical section Submit, SubmitAndWait and               *)
(* WaitCQETimeout share, then the enter call), interleaved at the          *)
(* granularity of the mutex operations and of the loads and stores inside  *)
(* the critical sections, on a ring without kernel polling.                *)
(***************************************************************************)
Workers == {"prod", "sub"}

manyFrame == <<cfgVars, envVars, closeLog, resVars, cqVars, halted, cqHist,
               regionUse>>

\* A builder: r.sqLock.Lock()
Prep_lockBy(t) ==
  /\ At(t, "idle")
  /\ Len(resLog) < MaxReserve
  /\ Lock(t)
  /\ Goto(t, "getSQE")
  /\ UNCHANGED <<manyFrame, sqVars, sqPending, kernVars, loc, ret, sqHist>>

\* getSQE: the loads of head and tail, the full test and the slot index.
Prep_getSQE_readBy(t) ==
  /\ At(t, "getSQE")
  /\ IF getSQE_full
     THEN /\ Unlock(t)
          /\ Goto(t, "idle")
          /\ ret' = Ret("PrepNop", "ErrSQFull", 0, closed, FALSE)
          /\ resLog' = Append(resLog, FALSE)
          /\ UNCHANGED <<loc, owner, covered>>
     ELSE /\ Goto(t, "fill")
          /\ loc' = [loc EXCEPT ![t].tok = getSQE_tail, ![t].idx = getSQE_idx]
          /\ UNCHANGED <<sqLock, ret, sqHist>>
  /\ UNCHANGED <<manyFrame, sqVars, sqPending, kernVars>>

\* getSQE: Reset, the index-array write and r.sqPending++; then the
\* builder's field writes and the unlock.
Prep_fillBy(t) ==
  /\ At(t, "fill")
  /\ sqes' = [sqes EXCEPT ![loc[t].idx] = NopSQE(NextToken)]
  /\ sqArray' = [sqArray EXCEPT ![loc[t].idx] = loc[t].idx]
  /\ sqPending' = U32(sqPending + 1)
  /\ owner' = [owner EXCEPT ![loc[t].tok] = NextToken]
  /\ resLog' = Append(resLog, TRUE)
  /\ Unlock(t)
  /\ Goto(t, "idle")
  /\ ret' = Ret("PrepNop", "nil", 0, closed, FALSE)
  /\ loc' = [loc EXCEPT ![t] = NoLocals]
  /\ UNCHANGED <<manyFrame, sqHead, sqTail, sqFlags, kernVars, covered>>

\* A publisher: r.sqLock.Lock()
Publish_lockBy(t) ==
  /\ At(t, "idle")
  /\ \E op \in {"Submit", "SubmitAndWait", "WaitCQETimeout"} :
       loc' = [loc EXCEPT ![t].op = op]
  /\ Lock(t)
  /\ Goto(t, "pending")
  /\ UNCHANGED <<manyFrame, sqVars, sqPending, kernVars, ret, sqHist>>

\* submitted := r.sqPending; with nothing pending Submit unlocks and
\* returns, the other two unlock and go on to their enter call.
Publish_readBy(t) ==
  /\ At(t, "pending")
  /\ IF sqPending = 0
     THEN /\ Unlock(t)
          /\ IF loc[t].op = "Submit"
             THEN /\ Goto(t, "idle")
                  /\ ret' = Ret("Submit", "nil", 0, FALSE, FALSE)
                  /\ loc' = [loc EXCEPT ![t] = NoLocals]
             ELSE /\ Goto(t, "enter")
                  /\ loc' = [loc EXCEPT ![t].submitted = 0]
                  /\ UNCHANGED ret
     ELSE /\ Goto(t, "publish")
          /\ loc' = [loc EXCEPT ![t].submitted = sqPending]
          /\ UNCHANGED <<sqLock, ret>>
  /\ UNCHANGED <<manyFrame, sqVars, sqPending, kernVars, sqHist>>

\* tail := atomic.LoadUint32(r.sqTail)
\* atomic.StoreUint32(r.sqTail, tail+submitted); r.sqPending = 0; Unlock
Publish_storeBy(t) ==
  /\ At(t, "publish")
  /\ Submit_publish(loc[t].submitted)
  /\ Unlock(t)
  /\ Goto(t, "enter")
  /\ UNCHANGED <<manyFrame, sqHead, sqFlags, sqArray, sqes, kernVars, loc,
                 ret, sqHist>>

\* The enter call: the kernel takes entries from the head, up to the count
\* it is given.
Publish_enterBy(t) ==
  /\ At(t, "enter")
  /\ \E k \in 0..Min(loc[t].submitted, U32(sqTail - sqHead)) :
       /\ sqHead' = U32(sqHead + k)
       /\ inflight' = inflight \o Consumed(k)
       /\ ret' = IF k = 0 /\ loc[t].submitted > 0
                 THEN Ret(loc[t].op, "errno", 0, FALSE, TRUE)
                 ELSE Ret(loc[t].op, "nil", k, FALSE, TRUE)
  /\ Goto(t, "idle")
  /\ loc' = [loc EXCEPT ![t] = NoLocals]
  /\ UNCHANGED <<manyFrame, sqTail, sqFlags, sqArray, sqes, libVars, sqHist>>

NextMany ==
  \/ \E t \in Workers : Prep_lockBy(t)
  \/ \E t \in Workers : Prep_getSQE_readBy(t)
  \/ \E t \in Workers : Prep_fillBy(t)
  \/ \E t \in Workers : Publish_lockBy(t)
  \/ \E t \in Workers : Publish_readBy(t)
  \/ \E t \in Workers : Publish_storeBy(t)
  \/ \E t \in Workers : Publish_enterBy(t)

SpecMany == InitConc /\ [][NextMany]_vars

(***************************************************************************)
(* SpecWrap: a run of no-ops submitted, completed and drained on a  *)
(* ring without kernel polling, so that the head and tail counters of both *)
(* rings pass the largest value of the counter width and start again at 0. *)
(***************************************************************************)
NextWrap ==
  \/ PrepNop
  \/ Submit
  \/ KernelComplete
  \/ PeekCQE
  \/ DrainCQEs

SpecWrap == InitCQ /\ [][NextWrap]_vars

(***************************************************************************)
(* SpecSpace: an application that asks SQSpace between reservations and    *)
(* submissions on a ring without kernel polling.                           *)
(***************************************************************************)
\* head := atomic.LoadUint32(r.sqHead); tail := atomic.LoadUint32(r.sqTail)
\* return r.sqEntries - (tail - head)
SQSpace_result == U32(sqEntries - U32(sqTail - sqHead))

SQSpace ==
  /\ Running
  /\ \/ Fault("SQSpace", {"sqRing"}, {"nil"})
     \/ /\ "sqRing" \in mapped
        /\ Touch({"sqRing"})
        /\ ret' = Ret("SQSpace", "nil", SQSpace_result, closed, FALSE)
        /\ UNCHANGED <<cfgVars, envVars, closeLog, resVars, sqVars, libVars,
                       cqVars, kernVars, thrVars, sqHist, cqHist>>

NextSpace ==
  \/ PrepNop
  \/ SQSpace
  \/ Submit

SpecSpace == InitBuild /\ [][NextSpace]_vars

(***************************************************************************)
(* SpecPoll: Submit, step by step, on rings with and without kernel        *)
(* polling, while another goroutine reserves entries and the poll thread   *)
(* consumes and parks: the needs-wakeup bit is read after the tail store   *)
(* and may change between the two.                                         *)
(***************************************************************************)
NextPoll ==
  \/ PrepNop
  \/ Submit_closedCheck
  \/ Submit_lock
  \/ Submit_critical
  \/ Submit_enter
  \/ KernelPollConsume
  \/ KernelPollPark
  \/ KernelComplete

SpecPoll == Init /\ [][NextPoll]_vars

(***************************************************************************)
(* SpecPollWait: a single goroutine that reserves no-ops and calls Submit  *)
(* and WaitCQETimeout on a kernel-polled ring, with and without            *)
(* IORING_FEAT_EXT_ARG, while the poll thread consumes and parks.          *)
(***************************************************************************)
InitPollWait ==
  /\ sqpoll = TRUE
  /\ singleMmap = FALSE
  /\ extArg \in BOOLEAN
  /\ InitRing
  /\ sqHead = 0

NextPollWait ==
  \/ PrepNop
  \/ Submit
  \/ WaitCQETimeout
  \/ Wait_peek
  \/ waitCQETimeoutPoll_peek
  \/ Wait_submitAndWait
  \/ Wait_enterReturns
  \/ Wait_signal
  \/ WaitCQETimeout_enterExt
  \/ WaitCQETimeout_extReturns
  \/ WaitCQETimeout_extPeek
  \/ Tick
  \/ KernelPollConsume
  \/ KernelPollPark
  \/ KernelComplete

SpecPollWait == InitPollWait /\ [][NextPollWait]_vars

(***************************************************************************)
(* SpecFlags: PrepNop, SetSQEFlags with different flag bytes, and Submit   *)
(* on a ring without kernel polling.                                       *)
(***************************************************************************)
IOSQE_ASYNC == 16

SQEFlagArgs == {IOSQE_IO_LINK, IOSQE_ASYNC}

SetSQEFlags_any == \E f \in SQEFlagArgs : SetSQEFlags_call(f)

NextFlags ==
  \/ PrepNop
  \/ SetSQEFlags_any
  \/ Submit

SpecFlags == InitBuild /\ [][NextFlags]_vars

(***************************************************************************)
(* Properties.                                                             *)
(***************************************************************************)
\* The kernel has taken no entry from the submission ring.
KernelConsumedNothing == Len(inflight) = 0 /\ Len(posted) = 0

\* C1: on a ring that starts with nothing published or pending, while the
\* kernel has consumed nothing, reservation attempt number i (PrepNop,
\* PrepRead with a non-empty buffer, GetSQE) succeeds exactly when
\* i <= capacity: the first `capacity` attempts succeed and attempt
\* capacity + 1 is refused.
C1_CapacityThenQueueFull ==
  KernelConsumedNothing =>
    \A i \in 1..Len(resLog) : resLog[i] = (i <= sqEntries)

C1_Witness ==
  /\ KernelConsumedNothing
  /\ Len(resLog) = sqEntries + 1
  /\ ret.op = "PrepRead"
  /\ ret.err = "ErrSQFull"

\* C2: published-but-unconsumed plus reserved-but-unpublished entries never
\* exceed the capacity of the submission ring.
C2_OccupancyWithinCapacity ==
  U32(sqTail - sqHead) + sqPending <= sqEntries

C2_Witness ==
  /\ U32(sqTail - sqHead) + sqPending = sqEntries
  /\ sqTail # sqHead
  /\ sqPending > 0
  /\ ret.op = "PrepNop"
  /\ ret.err = "ErrSQFull"

\* C4: a public operation called on a closed ring returns ErrRingClosed.
C4_ClosedRingRejectsEveryCall ==
  (ret.wasClosed /\ ret.op # "Close") => ret.err = "ErrRingClosed"

\* Number of completions published for token u.
Completions(u) ==
  Cardinality({i \in 1..Len(posted) : posted[i].userData = u})

KernelStep == KernelPollConsume \/ KernelPollPark \/ KernelComplete

\* C7: every entry reserved by a Prep* call and published by a Submit that
\* returned without error yields exactly one completion with its token:
\* on an open ring, once the kernel has no step left to take, each such
\* token has been completed once.
C7_CoveredEntriesComplete ==
  (~closed /\ ~ENABLED KernelStep) =>
    \A u \in covered : Completions(u) = 1

ReservationStep == PrepNop \/ PrepRead \/ GetSQE \/ SetSQEFlags

\* C9: a reservation step (a builder, GetSQE, SetSQEFlags) leaves the
\* kernel-visible tail where it was and makes no enter call; it changes at
\* most the pending counter, the entry slot of the position it reserved (or
\* last reserved) and that slot's index-array entry.
C9_ReservationLeavesTail ==
  [][ReservationStep =>
       /\ sqTail' = sqTail
       /\ ~ret'.entered
       /\ <<sqHead, sqFlags, inflight, cqHead, cqTail, cqes>>' =
            <<sqHead, sqFlags, inflight, cqHead, cqTail, cqes>>
       /\ \A i \in 0..(sqEntries - 1) :
            (/\ i # ((sqTail + sqPending) % Mod) % sqEntries
             /\ i # ((sqTail + sqPending + Mod - 1) % Mod) % sqEntries)
            => (sqes'[i] = sqes[i] /\ sqArray'[i] = sqArray[i])
       /\ \A i \in 0..(sqEntries - 1) :
            i # ((sqTail + sqPending) % Mod) % sqEntries
            => sqArray'[i] = sqArray[i]]_vars

C9_Witness ==
  /\ sqPending = sqEntries
  /\ ret.op = "SetSQEFlags"
  /\ \E i \in 0..(sqEntries - 1) : sqes[i].flags # 0
  /\ sqTail \in Starts

\* C6 as stated: the completion head never passes the tail and no call
\* reads a slot at or past the tail, whatever the consumer calls.
C6_HeadNeverPassesTail ==
  /\ cqAdv <= Len(posted)
  /\ ~ret.readPast

\* C6 amended: as long as every SeenCQE was called with at least one
\* completion available and every SeenCQEs(n) with n <= available, the head
\* never passes the tail (the ring counters hold exactly the published and
\* not yet released completions, at most the ring's capacity) and no call
\* reads a slot at or past the tail.
C6_HeadWithinTailWhenReleasesFit ==
  consumer # "overrun" =>
    /\ cqAdv <= Len(posted)
    /\ U32(cqTail - cqHead) = Len(posted) - cqAdv
    /\ U32(cqTail - cqHead) <= cqEntries
    /\ ~ret.readPast

C6_Witness ==
  /\ consumer = "skipping"
  /\ ret.op = "SeenCQEs"
  /\ cqAdv = Len(posted)
  /\ Len(posted) >= 2
  /\ Len(seen) = 0

\* C8: for a consumer that releases only entries it has peeked (PeekCQE then
\* SeenCQE) or that ForEachCQE has accepted, the completions obtained are
\* exactly the first ones the kernel published, in the kernel's order, and
\* every released entry was obtained.
C8_ObservedInPublishOrder ==
  consumer = "strict" =>
    /\ Len(seen) <= Len(posted)
    /\ seen = SubSeq(posted, 1, Len(seen))
    /\ Len(seen) = cqAdv

C8_Witness ==
  /\ consumer = "strict"
  /\ Len(seen) >= 2
  /\ seen[1].userData > seen[2].userData
  /\ ret.op = "SeenCQE"
  /\ cqHead < Len(seen)

\* C3: every position the kernel can see (from the head up to the published
\* tail) has its slot's index-array entry pointing at the slot and the slot
\* holding the complete entry of the PrepNop call that reserved the
\* position, whatever Submit and Close do concurrently.
C3_VisibleEntriesComplete ==
  \A p \in 0..(Mod - 1) :
    U32(p - sqHead) < U32(sqTail - sqHead) =>
      /\ sqArray[BitAnd(p, sqMask)] = BitAnd(p, sqMask)
      /\ sqes[BitAnd(p, sqMask)] = NopSQE(owner[p])

C3_Witness ==
  /\ pc["prod"] = "fill"
  /\ pc["sub"] = "lock"
  /\ sqLock = "prod"
  /\ sqTail # sqHead
  /\ sqPending > 0

\* C5: no operation reads or writes a mapped region once the closed flag
\* is set.
C5_NoRegionAccessOnceClosed ==
  regionUse = "ok"

\* C11 as stated: whenever the last call was a Submit that made no enter
\* call, it returned 0.
C11_ZeroWithoutSyscall ==
  (ret.op = "Submit" /\ ~ret.entered) => ret.n = 0

\* C11 amended: a Submit whose enter call succeeds returns the count the
\* kernel reported (without kernel polling the number of entries it took
\* from the head, with kernel polling the count it was asked for); one
\* whose enter call fails returns 0; one that makes no enter call returns
\* 0 on a closed ring or with nothing pending, and otherwise is on a
\* kernel-polled ring with the needs-wakeup bit clear and returns the
\* number of entries it published.
C11_SubmitReturnsCount ==
  [][Submit =>
       /\ (ret'.entered /\ ret'.err = "nil") =>
            ret'.n = (IF sqpoll THEN sqPending ELSE U32(sqHead' - sqHead))
       /\ (ret'.entered /\ ret'.err # "nil") => ret'.n = 0
       /\ ~ret'.entered =>
            /\ ret'.n = (IF closed THEN 0 ELSE sqPending)
            /\ (~closed /\ sqPending > 0) =>
                 (sqpoll /\ BitAnd(sqFlags, IORING_SQ_NEED_WAKEUP) = 0)]_vars

C11_Witness ==
  /\ ret.op = "Submit"
  /\ ret.entered
  /\ ret.err = "nil"
  /\ ret.n = 1
  /\ U32(sqTail - sqHead) = 1
  /\ ~sqpoll
  /\ inflight # <<>>

\* C12: a Submit or SubmitAndWait whose enter call fails returns
\* (0, error); the step has reset the pending counter, left the tail at the
\* value it published (old tail + pending), left the lock free, and left
\* head, entries and index array as they were, so that the published
\* entries are still in the ring.
C12_FailedEnterKeepsPublished ==
  [][((Submit \/ SubmitAndWait) /\ pc'["app"] = "idle" /\ ret'.entered
        /\ ret'.err = "errno") =>
       /\ ret'.n = 0
       /\ sqPending' = 0
       /\ sqTail' = U32(sqTail + sqPending)
       /\ sqLock' = "free"
       /\ <<sqHead, sqes, sqArray, inflight>>' =
            <<sqHead, sqes, sqArray, inflight>>
       /\ U32(sqTail' - sqHead') = U32(sqTail - sqHead) + sqPending]_vars

C12_Witness ==
  /\ ret.op = "SubmitAndWait"
  /\ ret.entered
  /\ ret.err = "errno"
  /\ ret.n = 0
  /\ sqPending = 0
  /\ U32(sqTail - sqHead) = sqEntries
  /\ pc["app"] = "idle"

\* The tokens of the requests in q that carry one, in order.
Tokens(q) == SelectSeq([i \in 1..Len(q) |-> q[i].userData], LAMBDA u : u # 0)

Increasing(q) == \A i, j \in 1..Len(q) : i < j => q[i] < q[j]

\* C13: a Submit that publishes k pending entries moves the tail from
\* oldTail to oldTail + k; each position oldTail + i (i < k) has its slot
\* p mod capacity named by the index array and holding the entry reserved
\* for that position, the builders' tokens appear at those positions in the
\* order of their reservation, and the kernel takes the requests in that
\* order.
C13_PublishedInReservationOrder ==
  [][(Submit /\ sqPending > 0) =>
       LET k == sqPending
           pos(i) == (sqTail + i) % Mod
           newly == [i \in 1..k |-> sqes'[pos(i - 1) % sqEntries]]
       IN  /\ sqTail' = (sqTail + k) % Mod
           /\ \A i \in 0..(k - 1) :
                /\ sqArray'[pos(i) % sqEntries] = pos(i) % sqEntries
                /\ sqes'[pos(i) % sqEntries].userData = owner[pos(i)]
           /\ Increasing(Tokens(newly))
           /\ Increasing(Tokens(inflight'))]_vars

C13_Witness ==
  /\ ret.op = "Submit"
  /\ ret.n = sqEntries
  /\ Len(Tokens(inflight)) >= 3
  /\ sqTail = sqHead
  /\ sqPending = 0

\* C14: every ring position p that is reserved or published and not yet
\* consumed has its entry in slot p mod capacity, with the index array
\* naming that slot, wherever the counters are and however often the ring
\* has wrapped; in particular entry capacity + 1 of a new ring lies in
\* slot 0.
C14_EntryAtWrappedSlot ==
  \A i \in 0..(U32(sqTail - sqHead) + sqPending - 1) :
    LET p == (sqHead + i) % Mod
    IN  /\ sqArray[p % sqEntries] = p % sqEntries
        /\ sqes[p % sqEntries].userData = owner[p]
        /\ \A j \in 0..(i - 1) :
             ((sqHead + j) % Mod) % sqEntries # p % sqEntries

C14_Witness ==
  /\ Len(inflight) = sqEntries
  /\ sqHead = sqEntries
  /\ sqTail = sqEntries + 1
  /\ owner[sqEntries] = sqEntries + 1
  /\ sqes[0].userData = sqEntries + 1
  /\ sqArray[0] = 0

\* Reservation attempts that succeeded.
Successes == Cardinality({i \in 1..Len(resLog) : resLog[i]})

\* C15: the successful reservations never exceed capacity plus the entries
\* the kernel has consumed, and at every QueueFull return they equal it;
\* so between a QueueFull and the next one, with the kernel having consumed
\* k entries in between, exactly k reservations succeed.
C15_RefillAfterConsumption ==
  /\ Successes - Len(inflight) <= sqEntries
  /\ ret.err = "ErrSQFull" => Successes - Len(inflight) = sqEntries

C15_Witness ==
  /\ ret.err = "ErrSQFull"
  /\ Len(resLog) - Successes = 2
  /\ Len(inflight) = 1
  /\ Successes = sqEntries + 1
  /\ ~resLog[sqEntries + 1]
  /\ resLog[sqEntries + 2]

ZeroLengthCall ==
  \E fd \in Fds, addr \in BufAddrs, off \in Offsets :
    \/ PrepBuf("PrepRead", ReadSQE(fd, addr, 0, off, NextToken))
    \/ PrepBuf("PrepWrite", WriteSQE(fd, addr, 0, off, NextToken))

\* C17: PrepRead and PrepWrite called with an empty buffer return nil
\* and leave the rings, the pending counter, the kernel's requests and the
\* record of reservations as they were, on a full queue as on any other;
\* and every entry the kernel has completed, holds or can still take comes
\* from a reservation that succeeded.
C17_EmptyBufferReservesNothing ==
  /\ [][ZeroLengthCall =>
          /\ ret'.err = "nil"
          /\ ~ret'.entered
          /\ <<sqVars, libVars, cqVars, kernVars, sqHist, cqHist>>' =
               <<sqVars, libVars, cqVars, kernVars, sqHist, cqHist>>]_vars
  /\ [](Len(posted) + Len(inflight) + U32(sqTail - sqHead) + sqPending
          = Successes)

C17_Witness ==
  /\ ret.op = "PrepWrite"
  /\ ret.err = "nil"
  /\ U32(sqTail - sqHead) + sqPending = sqEntries
  /\ Successes = sqEntries
  /\ Len(resLog) = sqEntries
  /\ KernelConsumedNothing
  /\ \A i \in 0..(sqEntries - 1) : sqes[i].opcode # IORING_OP_WRITE

\* C18: after a successful PrepNop the reserved slot holds the no-op
\* opcode and the caller's token and zero in every other field; after a
\* successful PrepRead it holds the read's opcode, descriptor, address,
\* length, offset and token and zero flags; whatever entry and flags the
\* slot held before.
C18_UnwrittenFieldsZero ==
  [][((PrepNop \/ PrepRead) /\ resLog' = Append(resLog, TRUE)) =>
       LET e == sqes'[((sqTail + sqPending) % Mod) % sqEntries]
       IN  /\ e.flags = 0
           /\ e.userData = Len(resLog) + 1
           /\ ret'.op = "PrepNop" =>
                /\ e.opcode = IORING_OP_NOP
                /\ e.fd = 0 /\ e.off = 0 /\ e.addr = 0 /\ e.len = 0
           /\ ret'.op = "PrepRead" =>
                /\ e.opcode = IORING_OP_READ
                /\ e.fd \in Fds /\ e.addr \in BufAddrs /\ e.off \in Offsets
                /\ e.len = 1]_vars

C18_Witness ==
  /\ ret.op = "PrepNop"
  /\ ret.err = "nil"
  /\ Successes = sqEntries + 1
  /\ Len(inflight) >= 1
  /\ inflight[1].userData = 1
  /\ inflight[1].res = 1
  /\ \E i \in 0..(sqEntries - 1) :
       /\ sqes[i] = NopSQE(sqEntries + 1)
       /\ U32(sqTail + sqPending - 1) % sqEntries = i
       /\ U32(sqTail + sqPending - 1 - sqEntries) = U32(sqHead - Len(inflight))

\* C19: a goroutine that is outside PrepNop's and Submit's critical
\* sections (idle, still waiting for the lock, or in its enter call) does
\* not hold the lock, and a producer that has attempts left and is at its
\* Lock call eventually holds the lock, also while another caller is
\* blocked in enter.
C19_LockAlwaysReleased ==
  /\ [](\A t \in {"prod", "sub"} :
          pc[t] \in {"idle", "lock", "enter"} => sqLock # t)
  /\ [](sqLock \in {"free", "prod", "sub"})
  /\ ((pc["prod"] = "idle" /\ Len(resLog) < MaxReserve)
        ~> (sqLock = "prod"))

C19_Witness ==
  /\ pc["app"] = "waiting"
  /\ loc["app"].minComplete > U32(cqTail - cqHead)
  /\ pc["sub"] = "lock"
  /\ sqLock = "prod"
  /\ pc["prod"] = "getSQE"
  /\ Len(resLog) >= sqEntries

\* C20: however many Close calls are made, one after another or at the
\* same time, exactly one of them goes past the closed-flag swap; the
\* munmap calls and the close of the descriptor are made by that call only,
\* each once and in Close's order; that call returns after all of them;
\* and every other call returns nil.
C20_CloseRunsOnce ==
  /\ closeLog.calls >= 1 => Cardinality(closeLog.entered) = 1
  /\ Len(closeLog.sys) <= Len(CloseSequence)
  /\ \A i \in DOMAIN closeLog.sys :
       /\ closeLog.sys[i].call \in closeLog.entered
       /\ closeLog.sys[i].what = CloseSequence[i]
  /\ \A r \in closeLog.rets :
       IF r[1] \in closeLog.entered
       THEN Len(closeLog.sys) = Len(CloseSequence)
       ELSE r[2] = "nil"
  /\ mapped = Regions \ {closeLog.sys[i].what : i \in DOMAIN closeLog.sys}
  /\ fdOpen = (Len(closeLog.sys) < Len(CloseSequence))

\* A call has returned nil without a syscall while the call that went
\* past the swap is still between its munmap calls, and a further call
\* has just been refused by the swap.
C20_Witness ==
  /\ \E t \in Closers : pc[t] = "sqesMmap"
  /\ \E t \in Closers : pc[t] = "alreadyClosed"
  /\ Cardinality({r \in closeLog.rets : r[1] \notin closeLog.entered}) >= 1
  /\ closeLog.calls >= 3
  /\ mapped = {"sqesMmap"}
  /\ fdOpen

\* The regions Close has unmapped so far, in order.
Unmapped ==
  [i \in 1..Cardinality({j \in DOMAIN closeLog.sys :
                           closeLog.sys[j].what # "fd"}) |->
     closeLog.sys[i].what]

Reverse(q) == [i \in 1..Len(q) |-> q[Len(q) + 1 - i]]

IsPrefix(q, r) ==
  Len(q) <= Len(r) /\ \A i \in 1..Len(q) : q[i] = r[i]

\* C21 as stated: Close unmaps the regions in the reverse of the order in
\* which New mapped them, and closes the descriptor after the last unmap.
C21_UnmapsInReverseOfMapping ==
  /\ IsPrefix(Unmapped, Reverse(closeLog.maps))
  /\ (closed /\ ~fdOpen) => mapped = {}

\* C21, amended: Close unmaps the completion ring (when it has a mapping
\* of its own), then the submission ring, then the submission-entry array,
\* and closes the descriptor only after the last unmap.
C21_UnmapsCqSqSqesThenCloses ==
  /\ IsPrefix(Unmapped,
              IF singleMmap THEN <<"sqRing", "sqesMmap">>
              ELSE <<"cqRing", "sqRing", "sqesMmap">>)
  /\ \A i \in DOMAIN closeLog.sys :
       closeLog.sys[i].what = "fd" => i = Len(closeLog.sys) /\ mapped = {}
  /\ (closed /\ ~fdOpen) => mapped = {}

C21_Witness ==
  /\ closed
  /\ ~fdOpen
  /\ ~singleMmap
  /\ closeLog.maps = <<"sqRing", "cqRing", "sqesMmap">>
  /\ Unmapped = <<"cqRing", "sqRing", "sqesMmap">>
  /\ closeLog.sys[Len(closeLog.sys)].what = "fd"

\* C22: when New returns an error after sys.Setup succeeded, because any
\* of the mmap calls failed, no region is mapped and the descriptor is
\* closed, with and without IORING_FEAT_SINGLE_MMAP.  (A New that fails
\* before or in Setup has no descriptor and no region either.)
C22_FailedNewLeavesNothing ==
  pc["app"] = "failed" =>
    /\ ret.op = "New"
    /\ ret.err # "nil"
    /\ mapped = {}
    /\ ~fdOpen

\* New has failed at its third mmap, with two regions mapped before it.
C22_Witness ==
  /\ pc["app"] = "failed"
  /\ ~singleMmap
  /\ closeLog.maps = <<"sqRing", "cqRing">>
  /\ ret.err = "errno"

\* C23: no step of PeekCQE or of WaitCQE changes cqHead; a call of either
\* that reports an entry reports the one at cqHead & mask, with the queue
\* not empty in the ring's own terms; and it is the entry the previous
\* successful peek or wait reported when no release has come between.
C23_PeekAndWaitLeaveHead ==
  /\ [][PeekCQE => cqHead' = cqHead]_vars
  /\ [][(loc["app"].op = "WaitCQE" \/ loc'["app"].op = "WaitCQE") =>
          cqHead' = cqHead]_vars
  /\ [][((PeekCQE \/ (loc["app"].op = "WaitCQE" /\ pc'["app"] = "idle"))
          /\ ret'.ok) =>
          /\ cqHead # cqTail
          /\ ret'.cqe = cqes[BitAnd(cqHead, cqMask)]
          /\ peeked # NoPeek => ret'.cqe = peeked]_vars

\* WaitCQE has returned the second completion, which it had to wait for
\* inside enter, after the first was peeked twice and released.
C23_Witness ==
  /\ ret.op = "WaitCQE"
  /\ ret.ok
  /\ ret.cqe.userData = 2
  /\ peeked = ret.cqe
  /\ Len(seen) = 1
  /\ Len(posted) = 2
  /\ cqHead = U32(cqTail - 1)

\* C24: on a completion ring whose head is within its tail, ForEachCQE
\* with a predicate that accepts the first k entries it is shown returns
\* the smaller of k and the number of entries available at its start,
\* hands the caller exactly that many entries, the oldest published and
\* unreleased ones in the kernel's order, advances cqHead by that number
\* and leaves the rest (the rejected entry first) available; with a
\* predicate that accepts every entry CQReady is 0 afterwards.
C24_ForEachAdvancesByAccepted ==
  [][(ret'.op = "ForEachCQE" /\ ret'.err = "nil" /\ consumer # "overrun") =>
       \A k \in 0..cqEntries :
         ForEachCQE_pred(k) =>
           /\ ret'.n = Min(k, CQReady)
           /\ cqHead' = U32(cqHead + ret'.n)
           /\ CQReady' = CQReady - ret'.n
           /\ seen' = seen \o SubSeq(posted, cqAdv + 1, cqAdv + ret'.n)
           /\ ~ret'.readPast
           /\ k = cqEntries => CQReady' = 0]_vars

\* ForEachCQE has accepted two entries and rejected the third.
C24_Witness ==
  /\ ret.op = "ForEachCQE"
  /\ ret.n = 2
  /\ CQReady = 1
  /\ Len(posted) = 3
  /\ seen = SubSeq(posted, 1, 2)
  /\ cqes[BitAnd(cqHead, cqMask)] = posted[3]

\* A call of WaitCQETimeout with a zero timeout is in progress.
ZeroTimeoutCall ==
  /\ loc["app"].op = "WaitCQETimeout"
  /\ loc["app"].timeout = 0

\* C25: WaitCQETimeout with a zero timeout never reaches an enter call
\* that waits: without the extended argument it makes no enter call at
\* all, with it the kernel's timer has run out when the call is made; and
\* when the completion queue is empty as the call returns and enter has
\* not failed, the call returns ETIME.
C25_ZeroTimeoutExpiresAtOnce ==
  /\ [](ZeroTimeoutCall =>
          /\ pc["app"] \notin {"submit", "blocked"}
          /\ pc["app"] = "waitingExt" => now >= loc["app"].deadline)
  /\ [][(ZeroTimeoutCall /\ pc'["app"] = "idle" /\ cqHead' = cqTail'
          /\ ret'.err # "errno") =>
          ret'.err = "ETIME" /\ ~ret'.ok]_vars

\* On a ring with the extended argument, with nothing pending, nothing in
\* flight and an empty completion queue, the call has returned ETIME
\* before the clock moved.
C25_Witness ==
  /\ extArg
  /\ ret.op = "WaitCQETimeout"
  /\ ret.err = "ETIME"
  /\ now = 0
  /\ cqHead = cqTail
  /\ sqPending = 0
  /\ inflight = <<>>
  /\ pc["app"] = "idle"

\* No completion can arrive: nothing is pending, published or in flight,
\* and the completion queue is empty.
NoCompletionToCome ==
  /\ sqPending = 0
  /\ sqHead = sqTail
  /\ inflight = <<>>
  /\ cqHead = cqTail

\* C26: without the extended argument, a WaitCQETimeout with a positive
\* timeout whose deadline has passed, with no completion to come, is not
\* inside an enter call that only a completion or a signal can end.
C26_PollNotBlockedPastDeadline ==
  ~(/\ ~extArg
    /\ loc["app"].op = "WaitCQETimeout"
    /\ loc["app"].timeout > 0
    /\ now > loc["app"].deadline
    /\ NoCompletionToCome
    /\ pc["app"] = "blocked")

\* C27: with and without the extended argument, a WaitCQEContext whose
\* context has been cancelled, with no completion to come, is not inside
\* an enter call that only a completion or a signal can end.
C27_ContextNotBlockedAfterCancel ==
  ~(/\ loc["app"].op = "WaitCQEContext"
    /\ ctxDone
    /\ NoCompletionToCome
    /\ pc["app"] = "blocked")

\* What the claim compares after a call: the library's and the kernel's
\* ring positions, the requests handed to the kernel, the count and error
\* reported, and the completion a PeekCQE reports.
CallOutcome ==
  <<sqTail, sqPending, sqHead, inflight, cqHead, ret.n, ret.err, PeekCQE_now>>

\* C28: from every state, each outcome of SubmitAndWait(0) whose enter call
\* succeeds is an outcome of Submit followed by PeekCQE, and each outcome of
\* Submit whose enter call succeeds is an outcome of SubmitAndWait(0): the
\* same sqTail, sqPending, cqHead, kernel head and requests in flight, the
\* same count, and the same completion (or none) at the head.
C28_SubmitAndWaitZeroIsSubmit ==
  /\ [][(SubmitAndWait_zero /\ ret'.err # "errno") =>
          \E o \in {CallOutcome'} : ENABLED (Submit /\ CallOutcome' = o)]_vars
  /\ [][(Submit /\ ret'.err # "errno") =>
          \E o \in {CallOutcome'} :
            ENABLED (SubmitAndWait_zero /\ CallOutcome' = o)]_vars

C28_Witness ==
  /\ ret.op = "SubmitAndWait"
  /\ ret.err = "nil"
  /\ ret.n = 2
  /\ Len(inflight) >= 2
  /\ cqHead # cqTail

\* What the kernel of the probe supports.
KernelSupports(op) ==
  op <= probe.kernel.lastOp /\ op \notin probe.kernel.off

\* C29: for every opcode 0..255 and every kernel, SupportsOp returns false
\* for an opcode above the kernel's last opcode and otherwise the opcode's
\* supported bit, and never indexes outside the probe table.
C29_SupportsOpWithinTable ==
  (probe.called /\ probe.res # "none") =>
    /\ probe.res # "panic"
    /\ probe.res = (IF probe.op > probe.kernel.lastOp THEN "false"
                    ELSE IF KernelSupports(probe.op) THEN "true"
                    ELSE "false")

\* The options applied so far that set the SQPOLL flag themselves.
SetsSQPoll(o) ==
  \/ o.name = "WithSQPoll"
  \/ o.name = "WithFlags" /\ BitAnd(o.arg, IORING_SETUP_SQPOLL) # 0

Applied(name) == {i \in 1..Len(opts) : opts[i].name = name}

LastCPU == opts[CHOOSE i \in Applied("WithSQPollCPU") :
                  \A j \in Applied("WithSQPollCPU") : j <= i].arg

\* C30 as stated: once WithSQPollCPU has been applied, whatever else was
\* applied and in whatever order, the parameters carry its CPU index and
\* the SQPOLL flag.
C30_SQPollCPUForcesSQPoll ==
  Applied("WithSQPollCPU") # {} =>
    /\ params.SQThreadCPU = LastCPU
    /\ BitAnd(params.Flags, IORING_SETUP_SQPOLL) # 0

\* C30 amended: once WithSQPollCPU has been applied, whatever else was
\* applied and in whatever order, the parameters carry its CPU index and
\* the SQ_AFF flag, and the SQPOLL flag is set exactly when WithSQPoll, or
\* WithFlags with that flag, was applied too.
C30_SQPollCPUSetsAffinityOnly ==
  Applied("WithSQPollCPU") # {} =>
    /\ params.SQThreadCPU = LastCPU
    /\ BitAnd(params.Flags, IORING_SETUP_SQ_AFF) # 0
    /\ BitAnd(params.Flags, IORING_SETUP_SQPOLL) # 0
         <=> \E i \in 1..Len(opts) : SetsSQPoll(opts[i])

C30_Witness ==
  /\ Len(opts) >= 3
  /\ opts[1].name = "WithCQSize"
  /\ opts[2] = [name |-> "WithSQPollCPU", arg |-> 1]
  /\ opts[3].name = "WithSQPollIdle"
  /\ params.SQThreadCPU = 1
  /\ BitAnd(params.Flags, IORING_SETUP_SQ_AFF) # 0
  /\ BitAnd(params.Flags, IORING_SETUP_SQPOLL) = 0

\* The needs-wakeup bit as it is when Submit reads it.
WakeupBitSet == BitAnd(sqFlags, IORING_SQ_NEED_WAKEUP) # 0

\* C31: a Submit that has published its pending entries calls enter exactly
\* when the ring is not kernel-polled, or is kernel-polled with the
\* needs-wakeup bit, read after the tail store, set; the enter flags carry
\* the wakeup flag on a kernel-polled ring and never on another, and the
\* count passed is the number of entries just published.
C31_EnterExactlyWhenNeeded ==
  [][(pc["sub"] = "enter" /\ Submit_enter) =>
       /\ ret'.op = "Submit"
       /\ ret'.entered <=> (~sqpoll \/ WakeupBitSet)
       /\ ret'.entered =>
            /\ ret'.call.toSubmit = loc["sub"].submitted
            /\ ret'.call.minComplete = 0
            /\ ret'.call.flags =
                 (IF sqpoll THEN IORING_ENTER_SQ_WAKEUP ELSE 0)
       /\ ~ret'.entered => ret'.call = NoEnter /\ ret'.err = "nil"]_vars

C31_Witness ==
  /\ sqpoll
  /\ ret.op = "Submit"
  /\ ret.entered
  /\ ret.err = "nil"
  /\ ret.call = EnterCall(2, 0, IORING_ENTER_SQ_WAKEUP)
  /\ sqFlags = 0
  /\ sqHead # sqTail

\* C32: on a kernel-polled ring no call is waiting inside enter, having
\* published entries, while those entries are unconsumed and the poll
\* thread is parked with the needs-wakeup bit set: every publishing path
\* wakes the thread when the bit is set.
C32_NoWaitOnParkedPollThread ==
  ~(/\ sqpoll
    /\ pc["app"] \in {"blocked", "waitingExt"}
    /\ sqHead # sqTail
    /\ WakeupBitSet)

\* The ring position of the most recent successful reservation: the one
\* that carries the newest token.
LastReserved ==
  CHOOSE p \in 0..(Mod - 1) : \A q \in 0..(Mod - 1) : owner[q] <= owner[p]

\* C33: SetSQEFlags ORs the given bits into the flags of the entry reserved
\* last, which is still unpublished (at ring position sqTail+sqPending-1),
\* and changes nothing else; with nothing pending it changes nothing at
\* all, so no published entry is modified.
C33_FlagsGoToLastReserved ==
  [][\A f \in SQEFlagArgs :
       (ret'.op = "SetSQEFlags" /\ SetSQEFlags_call(f)) =>
         /\ UNCHANGED <<sqHead, sqTail, sqFlags, sqArray, sqPending, sqLock,
                        inflight, owner>>
         /\ \A i \in 0..sqMask :
              \A field \in {"opcode", "fd", "off", "addr", "len", "userData"} :
                sqes'[i][field] = sqes[i][field]
         /\ IF sqPending = 0
            THEN sqes' = sqes
            ELSE /\ U32(LastReserved - sqTail) < sqPending
                 /\ LastReserved = U32(sqTail + sqPending - 1)
                 /\ \A i \in 0..sqMask :
                      sqes'[i].flags =
                        IF i = BitAnd(LastReserved, sqMask)
                        THEN BitOr(sqes[i].flags, f)
                        ELSE sqes[i].flags]_vars

\* An entry carries both flag bytes, on a ring that also holds a published
\* entry the kernel has not taken.
C33_Witness ==
  /\ ret.op = "SetSQEFlags"
  /\ sqPending = 1
  /\ sqHead # sqTail
  /\ sqes[BitAnd(sqTail, sqMask)].flags = BitOr(IOSQE_IO_LINK, IOSQE_ASYNC)
  /\ sqes[BitAnd(sqHead, sqMask)].flags = 0

\* C34: every position the kernel can see holds the entry as the caller
\* of GetSQE populates it, whatever a concurrent Submit does.
C34_VisibleEntriesPopulated ==
  \A p \in 0..(Mod - 1) :
    U32(p - sqHead) < U32(sqTail - sqHead) =>
      sqes[BitAnd(p, sqMask)] = NopSQE(owner[p])

\* C35: with goroutines reserving and publishing concurrently, every
\* successful reservation takes the position sqTail+sqPending, which no
\* earlier reservation holds, and adds one to sqPending; every tail store
\* moves sqTail forward by exactly the pending count and resets it; and
\* nothing else changes sqTail or sqPending: each reservation is published
\* by exactly one tail store and sqTail never goes back.
C35_ReservationsPublishedOnce ==
  /\ [][resLog' = Append(resLog, TRUE) =>
          /\ owner[U32(sqTail + sqPending)] = 0
          /\ owner'[U32(sqTail + sqPending)] # 0
          /\ \A p \in 0..(Mod - 1) :
               p # U32(sqTail + sqPending) => owner'[p] = owner[p]
          /\ sqPending' = sqPending + 1
          /\ sqTail' = sqTail]_vars
  /\ [][sqTail' # sqTail =>
          /\ sqPending > 0
          /\ sqTail' = U32(sqTail + sqPending)
          /\ sqPending' = 0]_vars
  /\ [][sqPending' # sqPending =>
          \/ resLog' = Append(resLog, TRUE)
          \/ sqTail' # sqTail]_vars

\* One goroutine is inside a builder's critical section while the other
\* waits for the lock to publish, after an earlier publication.
C35_Witness ==
  /\ pc["prod"] = "fill"
  /\ sqLock = "prod"
  /\ pc["sub"] = "idle"
  /\ ret.op = "SubmitAndWait"
  /\ sqTail # 0
  /\ sqPending = 1

\* The submission entries reserved and not yet taken by the kernel, counted
\* without the ring's counters.
Occupied ==
  Cardinality({i \in 1..Len(resLog) : resLog[i]}) - Len(inflight) - Len(posted)

\* C36: across the wrap of the head and tail counters, the unsigned
\* difference sqTail + sqPending - sqHead equals the number of occupied
\* submission entries, a reservation fails exactly when that number is the
\* ring size, every occupied position's slot (position & mask) still holds
\* the entry reserved at that position, a successful reservation writes
\* slot (sqTail + sqPending) & mask, and cqTail - cqHead equals the number
\* of completions posted and not yet released.
WrapCounts ==
  /\ U32(sqTail + sqPending - sqHead) = Occupied
  /\ CQReady = Available
  /\ \A i \in 0..(Occupied - 1) :
       sqes[sqArray[BitAnd(U32(sqHead + i), sqMask)]].userData
         = owner[U32(sqHead + i)]

C36_WrapSafe ==
  [][/\ WrapCounts'
     /\ resLog' # resLog =>
          /\ resLog'[Len(resLog')] = (Occupied < sqEntries)
          /\ Occupied < sqEntries =>
               sqes'[BitAnd(U32(sqTail + sqPending), sqMask)]
                 = NopSQE(NextToken)]_vars

\* The submission counters have wrapped: the reservation position is
\* numerically below the head, the ring is full and a reservation has just
\* been refused.
C36_Witness ==
  /\ U32(sqTail + sqPending) < sqHead
  /\ Occupied = sqEntries
  /\ ret.op = "PrepNop" /\ ret.err = "ErrSQFull"
  /\ resLog[Len(resLog) - 1]

\* The munmap or close calls Close has made on one resource.
CloseCalls(what) == {i \in DOMAIN closeLog.sys : closeLog.sys[i].what = what}

\* The first Close call has returned.
FirstCloseReturned == \E r \in closeLog.rets : r[1] \in closeLog.entered

\* C37: Close never unmaps a region twice and never unmaps one that New did
\* not map; once the first Close has returned, every region New mapped has
\* been unmapped exactly once (with IORING_FEAT_SINGLE_MMAP the shared
\* region once and no completion-ring unmap; without it the three regions
\* once each) and the descriptor has been closed exactly once, after the
\* unmaps; later Close calls add nothing.
C37_EveryRegionUnmappedOnce ==
  /\ \A reg \in Regions :
       /\ Cardinality(CloseCalls(reg)) <= 1
       /\ CloseCalls(reg) # {} =>
            \E i \in DOMAIN closeLog.maps : closeLog.maps[i] = reg
  /\ Cardinality(CloseCalls("fd")) <= 1
  /\ FirstCloseReturned =>
       /\ \A i \in DOMAIN closeLog.maps :
            Cardinality(CloseCalls(closeLog.maps[i])) = 1
       /\ Cardinality(CloseCalls("sqRing")) = 1
       /\ Cardinality(CloseCalls("sqesMmap")) = 1
       /\ Cardinality(CloseCalls("cqRing")) = IF singleMmap THEN 0 ELSE 1
       /\ CloseCalls("fd") = {Len(closeLog.sys)}
       /\ mapped = {}
       /\ ~fdOpen

\* On a ring whose completion ring shares the submission ring's mapping,
\* the first Close has returned and a second Close has returned after it.
C37_Witness ==
  /\ singleMmap
  /\ closeLog.maps = <<"sqRing", "sqesMmap">>
  /\ FirstCloseReturned
  /\ Cardinality(closeLog.rets) >= 2
  /\ Len(closeLog.sys) = 3
  /\ \A t \in Closers : pc[t] = "idle"

\* C38: on an open ring without kernel polling, a Submit call that finds
\* published entries the kernel has not taken (sqHead # sqTail, left by an
\* enter call that failed or accepted fewer entries than were published)
\* makes an enter call that offers the kernel all the published entries,
\* those and any it publishes itself, whether or not it had anything
\* pending.
C38_SubmitOffersStrandedEntries ==
  [][(/\ ~sqpoll /\ ~closed /\ fdOpen
      /\ sqHead # sqTail
      /\ Submit)
     => /\ ret'.entered
        /\ ret'.call.toSubmit = U32(sqTail' - sqHead)]_vars

\* The steps in which a waiting call stores the tail and enters the kernel.
EnterSteps == {"submit", "enterExt"}

\* C39: the first PeekCQE of WaitCQE, WaitCQETimeout and WaitCQEContext
\* returns the entry at the head when the completion ring is not empty,
\* leaving sqTail, sqPending, sqHead and the kernel's requests as they were;
\* with the ring empty it returns nothing and changes none of them; a call
\* reaches its tail store and enter call only from a peek that found the
\* ring empty; the tail moves in those steps only, by the pending count,
\* which is reset; and the enter call made there passes the pending count,
\* a minimum of one completion and IORING_ENTER_GETEVENTS.
C39_PeekBeforeEnter ==
  /\ [][(pc["app"] = "peek" /\ Wait_peek) =>
          /\ UNCHANGED <<sqTail, sqPending, sqHead, inflight>>
          /\ loc'["app"].enter \in {loc["app"].enter, NoEnter}
          /\ IF CQReady >= 1
             THEN /\ pc'["app"] = "idle"
                  /\ ret'.op = loc["app"].op
                  /\ ret'.ok /\ ret'.err = "nil"
                  /\ ret'.cqe = cqes[BitAnd(cqHead, cqMask)]
                  /\ ~ret'.entered
             ELSE /\ pc'["app"] \in {"submit", "enterExt", "ctxCheck",
                                     "pollPeek"}
                  /\ ret' = ret]_vars
  /\ [][(pc'["app"] \in EnterSteps /\ pc["app"] \notin EnterSteps) =>
          /\ pc["app"] \in {"peek", "pollPeek"}
          /\ CQReady = 0]_vars
  /\ [][sqTail' # sqTail =>
          /\ pc["app"] \in EnterSteps
          /\ sqTail' = U32(sqTail + sqPending)
          /\ sqPending' = 0]_vars
  /\ [][(loc'["app"].enter # loc["app"].enter
         /\ loc'["app"].enter # NoEnter) =>
          /\ pc["app"] \in EnterSteps
          /\ pc'["app"] \in {"blocked", "waitingExt"}
          /\ loc'["app"].enter.toSubmit = sqPending
          /\ loc'["app"].enter.minComplete = 1
          /\ BitAnd(loc'["app"].enter.flags, IORING_ENTER_GETEVENTS) # 0
          /\ sqPending' = 0]_vars

\* An earlier WaitCQETimeout published an entry, entered and timed out; its
\* completion has arrived since, another entry is pending, and WaitCQE is
\* at its first peek.
C39_Witness ==
  /\ pc["app"] = "peek"
  /\ loc["app"].fn = "WaitCQE"
  /\ CQReady >= 1
  /\ sqPending >= 1
  /\ sqTail = 1
  /\ ret.op = "WaitCQETimeout" /\ ret.err = "ETIME"

\* C40: SQSpace returns the number of reservations that can still succeed:
\* the ring size less the entries reserved or published and not yet taken
\* by the kernel; and the reservation made next after SQSpace returned s
\* succeeds exactly when s > 0.
C40_SQSpaceCountsReservable ==
  /\ [][SQSpace =>
          ret'.n = sqEntries - U32(sqTail + sqPending - sqHead)]_vars
  /\ [][(ret.op = "SQSpace" /\ resLog' # resLog) =>
          resLog'[Len(resLog')] = (ret.n > 0)]_vars

====
